---- MODULE Spec2Model ----
(***************************************************************************)
(* A model of kivygw.  The larger part is the colour utilities             *)
(* (src/kivygw/utils/colors.py): the NamedColor registry, the nearest-     *)
(* colour search NamedColor.by_value, and the tuple codec float_tuple /    *)
(* int_tuple.  The other parts are GWEnum (utils/enums.py), snake_case     *)
(* (utils/strings.py), keystroke expressions (utils/keystrokes.py), the    *)
(* yes/no dialog (app_support/dialogs.py), the inactivity timeout          *)
(* (app_support/inactivity.py), the multi-keystroke listener               *)
(* (widgets/hotkey.py), the camera inventory (utils/cameras.py) and the    *)
(* image window of the crop tool (widgets/crop_tool.py).                   *)
(*                                                                         *)
(* Conventions.                                                            *)
(*  - A registry member is its position in definition order (1..554);      *)
(*    iterating the enum (for e in cls) is iterating 1..Len(NamedColor).   *)
(*  - An int colour tuple is a sequence of integers.                       *)
(*  - In the codec a Python number (int or float) is an exact rational     *)
(*    <<n, d>> in lowest terms with d > 0; an int k is <<k, 1>>.  None is  *)
(*    the empty sequence.  Python's == on numbers is value equality, so    *)
(*    1 and 1.0 are the same value here as they are there.                 *)
(*  - The outcome of a call is a record: kind says whether it returned a   *)
(*    value, returned None, or raised (and which exception).               *)
(***************************************************************************)
EXTENDS Integers, Sequences, FiniteSets, TLC

(***************************************************************************)
(* The registry: colors.py lines 85-668, in definition order.              *)
(*   NAME = ((r, g, b), STANDARD | EXTRA)                                  *)
(***************************************************************************)
NamedColor == <<
    [name |-> "LIGHTSALMON", rgb |-> <<255, 160, 122>>, std |-> TRUE],
    [name |-> "DARKSALMON", rgb |-> <<233, 150, 122>>, std |-> TRUE],
    [name |-> "LIGHTCORAL", rgb |-> <<240, 128, 128>>, std |-> TRUE],
    [name |-> "SALMON", rgb |-> <<250, 128, 114>>, std |-> TRUE],
    [name |-> "INDIANRED", rgb |-> <<205, 92, 92>>, std |-> TRUE],
    [name |-> "CRIMSON", rgb |-> <<220, 20, 60>>, std |-> TRUE],
    [name |-> "RED", rgb |-> <<255, 0, 0>>, std |-> TRUE],
    [name |-> "FIREBRICK", rgb |-> <<178, 34, 34>>, std |-> TRUE],
    [name |-> "DARKRED", rgb |-> <<139, 0, 0>>, std |-> TRUE],
    [name |-> "MAROON", rgb |-> <<128, 0, 0>>, std |-> TRUE],
    [name |-> "PINK", rgb |-> <<255, 192, 203>>, std |-> TRUE],
    [name |-> "LIGHTPINK", rgb |-> <<255, 182, 193>>, std |-> TRUE],
    [name |-> "HOTPINK", rgb |-> <<255, 105, 180>>, std |-> TRUE],
    [name |-> "PALEVIOLETRED", rgb |-> <<219, 112, 147>>, std |-> TRUE],
    [name |-> "DEEPPINK", rgb |-> <<255, 20, 147>>, std |-> TRUE],
    [name |-> "MEDIUMVIOLETRED", rgb |-> <<199, 21, 133>>, std |-> TRUE],
    [name |-> "CORAL", rgb |-> <<255, 127, 80>>, std |-> TRUE],
    [name |-> "TOMATO", rgb |-> <<255, 99, 71>>, std |-> TRUE],
    [name |-> "ORANGE", rgb |-> <<255, 165, 0>>, std |-> TRUE],
    [name |-> "DARKORANGE", rgb |-> <<255, 140, 0>>, std |-> TRUE],
    [name |-> "ORANGERED", rgb |-> <<255, 69, 0>>, std |-> TRUE],
    [name |-> "LIGHTYELLOW", rgb |-> <<255, 255, 224>>, std |-> TRUE],
    [name |-> "LIGHTGOLDENRODYELLOW", rgb |-> <<250, 250, 210>>, std |-> TRUE],
    [name |-> "LEMONCHIFFON", rgb |-> <<255, 250, 205>>, std |-> TRUE],
    [name |-> "PAPAYAWHIP", rgb |-> <<255, 239, 213>>, std |-> TRUE],
    [name |-> "MOCCASIN", rgb |-> <<255, 228, 181>>, std |-> TRUE],
    [name |-> "PEACHPUFF", rgb |-> <<255, 218, 185>>, std |-> TRUE],
    [name |-> "PALEGOLDENROD", rgb |-> <<238, 232, 170>>, std |-> TRUE],
    [name |-> "KHAKI", rgb |-> <<240, 230, 140>>, std |-> TRUE],
    [name |-> "YELLOW", rgb |-> <<255, 255, 0>>, std |-> TRUE],
    [name |-> "DARKKHAKI", rgb |-> <<189, 183, 107>>, std |-> TRUE],
    [name |-> "GOLD", rgb |-> <<255, 215, 0>>, std |-> TRUE],
    [name |-> "LAVENDER", rgb |-> <<230, 230, 250>>, std |-> TRUE],
    [name |-> "THISTLE", rgb |-> <<216, 191, 216>>, std |-> TRUE],
    [name |-> "VIOLET", rgb |-> <<238, 130, 238>>, std |-> TRUE],
    [name |-> "PLUM", rgb |-> <<221, 160, 221>>, std |-> TRUE],
    [name |-> "ORCHID", rgb |-> <<218, 112, 214>>, std |-> TRUE],
    [name |-> "MAGENTA", rgb |-> <<255, 0, 255>>, std |-> TRUE],
    [name |-> "FUCHSIA", rgb |-> <<255, 0, 254>>, std |-> TRUE],
    [name |-> "MEDIUMORCHID", rgb |-> <<186, 85, 211>>, std |-> TRUE],
    [name |-> "MEDIUMPURPLE", rgb |-> <<147, 112, 219>>, std |-> TRUE],
    [name |-> "DARKORCHID", rgb |-> <<153, 50, 204>>, std |-> TRUE],
    [name |-> "BLUEVIOLET", rgb |-> <<138, 43, 226>>, std |-> TRUE],
    [name |-> "DARKVIOLET", rgb |-> <<148, 0, 211>>, std |-> TRUE],
    [name |-> "DARKMAGENTA", rgb |-> <<139, 0, 139>>, std |-> TRUE],
    [name |-> "PURPLE", rgb |-> <<128, 0, 128>>, std |-> TRUE],
    [name |-> "INDIGO", rgb |-> <<75, 0, 130>>, std |-> TRUE],
    [name |-> "PALEGREEN", rgb |-> <<152, 251, 152>>, std |-> TRUE],
    [name |-> "LIGHTGREEN", rgb |-> <<144, 238, 144>>, std |-> TRUE],
    [name |-> "MEDIUMAQUAMARINE", rgb |-> <<102, 205, 170>>, std |-> TRUE],
    [name |-> "GREENYELLOW", rgb |-> <<173, 255, 47>>, std |-> TRUE],
    [name |-> "DARKSEAGREEN", rgb |-> <<143, 188, 143>>, std |-> TRUE],
    [name |-> "YELLOWGREEN", rgb |-> <<154, 205, 50>>, std |-> TRUE],
    [name |-> "MEDIUMSPRINGGREEN", rgb |-> <<0, 250, 154>>, std |-> TRUE],
    [name |-> "SPRINGGREEN", rgb |-> <<0, 255, 127>>, std |-> TRUE],
    [name |-> "CHARTREUSE", rgb |-> <<127, 255, 0>>, std |-> TRUE],
    [name |-> "LIGHTSEAGREEN", rgb |-> <<32, 178, 170>>, std |-> TRUE],
    [name |-> "LAWNGREEN", rgb |-> <<124, 252, 0>>, std |-> TRUE],
    [name |-> "MEDIUMSEAGREEN", rgb |-> <<60, 179, 113>>, std |-> TRUE],
    [name |-> "LIMEGREEN", rgb |-> <<50, 205, 50>>, std |-> TRUE],
    [name |-> "OLIVEDRAB", rgb |-> <<107, 142, 35>>, std |-> TRUE],
    [name |-> "DARKCYAN", rgb |-> <<0, 139, 139>>, std |-> TRUE],
    [name |-> "SEAGREEN", rgb |-> <<46, 139, 87>>, std |-> TRUE],
    [name |-> "TEAL", rgb |-> <<0, 128, 128>>, std |-> TRUE],
    [name |-> "OLIVE", rgb |-> <<128, 128, 0>>, std |-> TRUE],
    [name |-> "LIME", rgb |-> <<0, 255, 0>>, std |-> TRUE],
    [name |-> "DARKOLIVEGREEN", rgb |-> <<85, 107, 47>>, std |-> TRUE],
    [name |-> "FORESTGREEN", rgb |-> <<34, 139, 34>>, std |-> TRUE],
    [name |-> "GREEN", rgb |-> <<0, 128, 0>>, std |-> TRUE],
    [name |-> "DARKGREEN", rgb |-> <<0, 100, 0>>, std |-> TRUE],
    [name |-> "LIGHTCYAN", rgb |-> <<224, 255, 255>>, std |-> TRUE],
    [name |-> "PALETURQUOISE", rgb |-> <<175, 238, 238>>, std |-> TRUE],
    [name |-> "POWDERBLUE", rgb |-> <<176, 224, 230>>, std |-> TRUE],
    [name |-> "LIGHTBLUE", rgb |-> <<173, 216, 230>>, std |-> TRUE],
    [name |-> "LIGHTSTEELBLUE", rgb |-> <<176, 196, 222>>, std |-> TRUE],
    [name |-> "AQUAMARINE", rgb |-> <<127, 255, 212>>, std |-> TRUE],
    [name |-> "LIGHTSKYBLUE", rgb |-> <<135, 206, 250>>, std |-> TRUE],
    [name |-> "SKYBLUE", rgb |-> <<135, 206, 235>>, std |-> TRUE],
    [name |-> "CYAN", rgb |-> <<0, 255, 255>>, std |-> TRUE],
    [name |-> "AQUA", rgb |-> <<0, 255, 254>>, std |-> TRUE],
    [name |-> "TURQUOISE", rgb |-> <<64, 224, 208>>, std |-> TRUE],
    [name |-> "CORNFLOWERBLUE", rgb |-> <<100, 149, 237>>, std |-> TRUE],
    [name |-> "MEDIUMTURQUOISE", rgb |-> <<72, 209, 204>>, std |-> TRUE],
    [name |-> "MEDIUMSLATEBLUE", rgb |-> <<123, 104, 238>>, std |-> TRUE],
    [name |-> "DEEPSKYBLUE", rgb |-> <<0, 191, 255>>, std |-> TRUE],
    [name |-> "DODGERBLUE", rgb |-> <<30, 144, 255>>, std |-> TRUE],
    [name |-> "DARKTURQUOISE", rgb |-> <<0, 206, 209>>, std |-> TRUE],
    [name |-> "CADETBLUE", rgb |-> <<95, 158, 160>>, std |-> TRUE],
    [name |-> "SLATEBLUE", rgb |-> <<106, 90, 205>>, std |-> TRUE],
    [name |-> "ROYALBLUE", rgb |-> <<65, 105, 225>>, std |-> TRUE],
    [name |-> "STEELBLUE", rgb |-> <<70, 130, 180>>, std |-> TRUE],
    [name |-> "DARKSLATEBLUE", rgb |-> <<72, 61, 139>>, std |-> TRUE],
    [name |-> "BLUE", rgb |-> <<0, 0, 255>>, std |-> TRUE],
    [name |-> "MEDIUMBLUE", rgb |-> <<0, 0, 205>>, std |-> TRUE],
    [name |-> "MIDNIGHTBLUE", rgb |-> <<25, 25, 112>>, std |-> TRUE],
    [name |-> "DARKBLUE", rgb |-> <<0, 0, 139>>, std |-> TRUE],
    [name |-> "NAVY", rgb |-> <<0, 0, 128>>, std |-> TRUE],
    [name |-> "CORNSILK", rgb |-> <<255, 248, 220>>, std |-> TRUE],
    [name |-> "BLANCHEDALMOND", rgb |-> <<255, 235, 205>>, std |-> TRUE],
    [name |-> "BISQUE", rgb |-> <<255, 228, 196>>, std |-> TRUE],
    [name |-> "NAVAJOWHITE", rgb |-> <<255, 222, 173>>, std |-> TRUE],
    [name |-> "WHEAT", rgb |-> <<245, 222, 179>>, std |-> TRUE],
    [name |-> "BURLYWOOD", rgb |-> <<222, 184, 135>>, std |-> TRUE],
    [name |-> "TAN", rgb |-> <<210, 180, 140>>, std |-> TRUE],
    [name |-> "SANDYBROWN", rgb |-> <<244, 164, 96>>, std |-> TRUE],
    [name |-> "ROSYBROWN", rgb |-> <<188, 143, 143>>, std |-> TRUE],
    [name |-> "GOLDENROD", rgb |-> <<218, 165, 32>>, std |-> TRUE],
    [name |-> "PERU", rgb |-> <<205, 133, 63>>, std |-> TRUE],
    [name |-> "CHOCOLATE", rgb |-> <<210, 105, 30>>, std |-> TRUE],
    [name |-> "DARKGOLDENROD", rgb |-> <<184, 134, 11>>, std |-> TRUE],
    [name |-> "SIENNA", rgb |-> <<160, 82, 45>>, std |-> TRUE],
    [name |-> "BROWN", rgb |-> <<165, 42, 42>>, std |-> TRUE],
    [name |-> "SADDLEBROWN", rgb |-> <<139, 69, 19>>, std |-> TRUE],
    [name |-> "WHITE", rgb |-> <<255, 255, 255>>, std |-> TRUE],
    [name |-> "SNOW", rgb |-> <<255, 250, 250>>, std |-> TRUE],
    [name |-> "MINTCREAM", rgb |-> <<245, 255, 250>>, std |-> TRUE],
    [name |-> "IVORY", rgb |-> <<255, 255, 240>>, std |-> TRUE],
    [name |-> "GHOSTWHITE", rgb |-> <<248, 248, 255>>, std |-> TRUE],
    [name |-> "AZURE", rgb |-> <<240, 255, 255>>, std |-> TRUE],
    [name |-> "FLORALWHITE", rgb |-> <<255, 250, 240>>, std |-> TRUE],
    [name |-> "ALICEBLUE", rgb |-> <<240, 248, 255>>, std |-> TRUE],
    [name |-> "SEASHELL", rgb |-> <<255, 245, 238>>, std |-> TRUE],
    [name |-> "LAVENDERBLUSH", rgb |-> <<255, 240, 245>>, std |-> TRUE],
    [name |-> "WHITESMOKE", rgb |-> <<245, 245, 245>>, std |-> TRUE],
    [name |-> "HONEYDEW", rgb |-> <<240, 255, 240>>, std |-> TRUE],
    [name |-> "OLDLACE", rgb |-> <<253, 245, 230>>, std |-> TRUE],
    [name |-> "LINEN", rgb |-> <<250, 240, 230>>, std |-> TRUE],
    [name |-> "MISTYROSE", rgb |-> <<255, 228, 225>>, std |-> TRUE],
    [name |-> "BEIGE", rgb |-> <<245, 245, 220>>, std |-> TRUE],
    [name |-> "ANTIQUEWHITE", rgb |-> <<250, 235, 215>>, std |-> TRUE],
    [name |-> "GAINSBORO", rgb |-> <<220, 220, 220>>, std |-> TRUE],
    [name |-> "LIGHTGRAY", rgb |-> <<211, 211, 211>>, std |-> TRUE],
    [name |-> "SILVER", rgb |-> <<192, 192, 192>>, std |-> TRUE],
    [name |-> "DARKGRAY", rgb |-> <<169, 169, 169>>, std |-> TRUE],
    [name |-> "LIGHTSLATEGRAY", rgb |-> <<119, 136, 153>>, std |-> TRUE],
    [name |-> "SLATEGRAY", rgb |-> <<112, 128, 144>>, std |-> TRUE],
    [name |-> "GRAY", rgb |-> <<128, 128, 128>>, std |-> TRUE],
    [name |-> "DIMGRAY", rgb |-> <<105, 105, 105>>, std |-> TRUE],
    [name |-> "DARKSLATEGRAY", rgb |-> <<47, 79, 79>>, std |-> TRUE],
    [name |-> "BLACK", rgb |-> <<0, 0, 0>>, std |-> TRUE],
    [name |-> "AQUAMARINE2", rgb |-> <<118, 238, 198>>, std |-> FALSE],
    [name |-> "AQUAMARINE4", rgb |-> <<69, 139, 116>>, std |-> FALSE],
    [name |-> "ANTIQUEWHITE1", rgb |-> <<255, 239, 219>>, std |-> FALSE],
    [name |-> "ANTIQUEWHITE2", rgb |-> <<238, 223, 204>>, std |-> FALSE],
    [name |-> "ANTIQUEWHITE3", rgb |-> <<205, 192, 176>>, std |-> FALSE],
    [name |-> "ANTIQUEWHITE4", rgb |-> <<139, 131, 120>>, std |-> FALSE],
    [name |-> "AZURE2", rgb |-> <<224, 238, 238>>, std |-> FALSE],
    [name |-> "AZURE3", rgb |-> <<193, 205, 205>>, std |-> FALSE],
    [name |-> "AZURE4", rgb |-> <<131, 139, 139>>, std |-> FALSE],
    [name |-> "BANANA", rgb |-> <<227, 207, 87>>, std |-> FALSE],
    [name |-> "BISQUE2", rgb |-> <<238, 213, 183>>, std |-> FALSE],
    [name |-> "BISQUE3", rgb |-> <<205, 183, 158>>, std |-> FALSE],
    [name |-> "BISQUE4", rgb |-> <<139, 125, 107>>, std |-> FALSE],
    [name |-> "BLUE2", rgb |-> <<0, 0, 238>>, std |-> FALSE],
    [name |-> "BRICK", rgb |-> <<156, 102, 31>>, std |-> FALSE],
    [name |-> "BROWN1", rgb |-> <<255, 64, 64>>, std |-> FALSE],
    [name |-> "BROWN2", rgb |-> <<238, 59, 59>>, std |-> FALSE],
    [name |-> "BROWN3", rgb |-> <<205, 51, 51>>, std |-> FALSE],
    [name |-> "BROWN4", rgb |-> <<139, 35, 35>>, std |-> FALSE],
    [name |-> "BURLYWOOD1", rgb |-> <<255, 211, 155>>, std |-> FALSE],
    [name |-> "BURLYWOOD2", rgb |-> <<238, 197, 145>>, std |-> FALSE],
    [name |-> "BURLYWOOD3", rgb |-> <<205, 170, 125>>, std |-> FALSE],
    [name |-> "BURLYWOOD4", rgb |-> <<139, 115, 85>>, std |-> FALSE],
    [name |-> "BURNTSIENNA", rgb |-> <<138, 54, 15>>, std |-> FALSE],
    [name |-> "BURNTUMBER", rgb |-> <<138, 51, 36>>, std |-> FALSE],
    [name |-> "CADETBLUE1", rgb |-> <<152, 245, 255>>, std |-> FALSE],
    [name |-> "CADETBLUE2", rgb |-> <<142, 229, 238>>, std |-> FALSE],
    [name |-> "CADETBLUE3", rgb |-> <<122, 197, 205>>, std |-> FALSE],
    [name |-> "CADETBLUE4", rgb |-> <<83, 134, 139>>, std |-> FALSE],
    [name |-> "CADMIUMORANGE", rgb |-> <<255, 97, 3>>, std |-> FALSE],
    [name |-> "CADMIUMYELLOW", rgb |-> <<255, 153, 18>>, std |-> FALSE],
    [name |-> "CARROT", rgb |-> <<237, 145, 33>>, std |-> FALSE],
    [name |-> "CHARTREUSE2", rgb |-> <<118, 238, 0>>, std |-> FALSE],
    [name |-> "CHARTREUSE3", rgb |-> <<102, 205, 0>>, std |-> FALSE],
    [name |-> "CHARTREUSE4", rgb |-> <<69, 139, 0>>, std |-> FALSE],
    [name |-> "CHOCOLATE1", rgb |-> <<255, 127, 36>>, std |-> FALSE],
    [name |-> "CHOCOLATE2", rgb |-> <<238, 118, 33>>, std |-> FALSE],
    [name |-> "CHOCOLATE3", rgb |-> <<205, 102, 29>>, std |-> FALSE],
    [name |-> "COBALT", rgb |-> <<61, 89, 171>>, std |-> FALSE],
    [name |-> "COBALTGREEN", rgb |-> <<61, 145, 64>>, std |-> FALSE],
    [name |-> "COLDGREY", rgb |-> <<128, 138, 135>>, std |-> FALSE],
    [name |-> "CORAL1", rgb |-> <<255, 114, 86>>, std |-> FALSE],
    [name |-> "CORAL2", rgb |-> <<238, 106, 80>>, std |-> FALSE],
    [name |-> "CORAL3", rgb |-> <<205, 91, 69>>, std |-> FALSE],
    [name |-> "CORAL4", rgb |-> <<139, 62, 47>>, std |-> FALSE],
    [name |-> "CORNSILK2", rgb |-> <<238, 232, 205>>, std |-> FALSE],
    [name |-> "CORNSILK3", rgb |-> <<205, 200, 177>>, std |-> FALSE],
    [name |-> "CORNSILK4", rgb |-> <<139, 136, 120>>, std |-> FALSE],
    [name |-> "CYAN2", rgb |-> <<0, 238, 238>>, std |-> FALSE],
    [name |-> "CYAN3", rgb |-> <<0, 205, 205>>, std |-> FALSE],
    [name |-> "DARKGOLDENROD1", rgb |-> <<255, 185, 15>>, std |-> FALSE],
    [name |-> "DARKGOLDENROD2", rgb |-> <<238, 173, 14>>, std |-> FALSE],
    [name |-> "DARKGOLDENROD3", rgb |-> <<205, 149, 12>>, std |-> FALSE],
    [name |-> "DARKGOLDENROD4", rgb |-> <<139, 101, 8>>, std |-> FALSE],
    [name |-> "DARKOLIVEGREEN1", rgb |-> <<202, 255, 112>>, std |-> FALSE],
    [name |-> "DARKOLIVEGREEN2", rgb |-> <<188, 238, 104>>, std |-> FALSE],
    [name |-> "DARKOLIVEGREEN3", rgb |-> <<162, 205, 90>>, std |-> FALSE],
    [name |-> "DARKOLIVEGREEN4", rgb |-> <<110, 139, 61>>, std |-> FALSE],
    [name |-> "DARKORANGE1", rgb |-> <<255, 127, 0>>, std |-> FALSE],
    [name |-> "DARKORANGE2", rgb |-> <<238, 118, 0>>, std |-> FALSE],
    [name |-> "DARKORANGE3", rgb |-> <<205, 102, 0>>, std |-> FALSE],
    [name |-> "DARKORANGE4", rgb |-> <<139, 69, 0>>, std |-> FALSE],
    [name |-> "DARKORCHID1", rgb |-> <<191, 62, 255>>, std |-> FALSE],
    [name |-> "DARKORCHID2", rgb |-> <<178, 58, 238>>, std |-> FALSE],
    [name |-> "DARKORCHID3", rgb |-> <<154, 50, 205>>, std |-> FALSE],
    [name |-> "DARKORCHID4", rgb |-> <<104, 34, 139>>, std |-> FALSE],
    [name |-> "DARKSEAGREEN1", rgb |-> <<193, 255, 193>>, std |-> FALSE],
    [name |-> "DARKSEAGREEN2", rgb |-> <<180, 238, 180>>, std |-> FALSE],
    [name |-> "DARKSEAGREEN3", rgb |-> <<155, 205, 155>>, std |-> FALSE],
    [name |-> "DARKSEAGREEN4", rgb |-> <<105, 139, 105>>, std |-> FALSE],
    [name |-> "DARKSLATEGRAY1", rgb |-> <<151, 255, 255>>, std |-> FALSE],
    [name |-> "DARKSLATEGRAY2", rgb |-> <<141, 238, 238>>, std |-> FALSE],
    [name |-> "DARKSLATEGRAY3", rgb |-> <<121, 205, 205>>, std |-> FALSE],
    [name |-> "DARKSLATEGRAY4", rgb |-> <<82, 139, 139>>, std |-> FALSE],
    [name |-> "DEEPPINK2", rgb |-> <<238, 18, 137>>, std |-> FALSE],
    [name |-> "DEEPPINK3", rgb |-> <<205, 16, 118>>, std |-> FALSE],
    [name |-> "DEEPPINK4", rgb |-> <<139, 10, 80>>, std |-> FALSE],
    [name |-> "DEEPSKYBLUE2", rgb |-> <<0, 178, 238>>, std |-> FALSE],
    [name |-> "DEEPSKYBLUE3", rgb |-> <<0, 154, 205>>, std |-> FALSE],
    [name |-> "DEEPSKYBLUE4", rgb |-> <<0, 104, 139>>, std |-> FALSE],
    [name |-> "DODGERBLUE2", rgb |-> <<28, 134, 238>>, std |-> FALSE],
    [name |-> "DODGERBLUE3", rgb |-> <<24, 116, 205>>, std |-> FALSE],
    [name |-> "DODGERBLUE4", rgb |-> <<16, 78, 139>>, std |-> FALSE],
    [name |-> "EGGSHELL", rgb |-> <<252, 230, 201>>, std |-> FALSE],
    [name |-> "EMERALDGREEN", rgb |-> <<0, 201, 87>>, std |-> FALSE],
    [name |-> "FIREBRICK1", rgb |-> <<255, 48, 48>>, std |-> FALSE],
    [name |-> "FIREBRICK2", rgb |-> <<238, 44, 44>>, std |-> FALSE],
    [name |-> "FIREBRICK3", rgb |-> <<205, 38, 38>>, std |-> FALSE],
    [name |-> "FIREBRICK4", rgb |-> <<139, 26, 26>>, std |-> FALSE],
    [name |-> "FLESH", rgb |-> <<255, 125, 64>>, std |-> FALSE],
    [name |-> "GOLD2", rgb |-> <<238, 201, 0>>, std |-> FALSE],
    [name |-> "GOLD3", rgb |-> <<205, 173, 0>>, std |-> FALSE],
    [name |-> "GOLD4", rgb |-> <<139, 117, 0>>, std |-> FALSE],
    [name |-> "GOLDENROD1", rgb |-> <<255, 193, 37>>, std |-> FALSE],
    [name |-> "GOLDENROD2", rgb |-> <<238, 180, 34>>, std |-> FALSE],
    [name |-> "GOLDENROD3", rgb |-> <<205, 155, 29>>, std |-> FALSE],
    [name |-> "GOLDENROD4", rgb |-> <<139, 105, 20>>, std |-> FALSE],
    [name |-> "GRAY1", rgb |-> <<3, 3, 3>>, std |-> FALSE],
    [name |-> "GRAY2", rgb |-> <<5, 5, 5>>, std |-> FALSE],
    [name |-> "GRAY3", rgb |-> <<8, 8, 8>>, std |-> FALSE],
    [name |-> "GRAY4", rgb |-> <<10, 10, 10>>, std |-> FALSE],
    [name |-> "GRAY5", rgb |-> <<13, 13, 13>>, std |-> FALSE],
    [name |-> "GRAY6", rgb |-> <<15, 15, 15>>, std |-> FALSE],
    [name |-> "GRAY7", rgb |-> <<18, 18, 18>>, std |-> FALSE],
    [name |-> "GRAY8", rgb |-> <<20, 20, 20>>, std |-> FALSE],
    [name |-> "GRAY9", rgb |-> <<23, 23, 23>>, std |-> FALSE],
    [name |-> "GRAY10", rgb |-> <<26, 26, 26>>, std |-> FALSE],
    [name |-> "GRAY11", rgb |-> <<28, 28, 28>>, std |-> FALSE],
    [name |-> "GRAY12", rgb |-> <<31, 31, 31>>, std |-> FALSE],
    [name |-> "GRAY13", rgb |-> <<33, 33, 33>>, std |-> FALSE],
    [name |-> "GRAY14", rgb |-> <<36, 36, 36>>, std |-> FALSE],
    [name |-> "GRAY15", rgb |-> <<38, 38, 38>>, std |-> FALSE],
    [name |-> "GRAY16", rgb |-> <<41, 41, 41>>, std |-> FALSE],
    [name |-> "GRAY17", rgb |-> <<43, 43, 43>>, std |-> FALSE],
    [name |-> "GRAY18", rgb |-> <<46, 46, 46>>, std |-> FALSE],
    [name |-> "GRAY19", rgb |-> <<48, 48, 48>>, std |-> FALSE],
    [name |-> "GRAY20", rgb |-> <<51, 51, 51>>, std |-> FALSE],
    [name |-> "GRAY21", rgb |-> <<54, 54, 54>>, std |-> FALSE],
    [name |-> "GRAY22", rgb |-> <<56, 56, 56>>, std |-> FALSE],
    [name |-> "GRAY23", rgb |-> <<59, 59, 59>>, std |-> FALSE],
    [name |-> "GRAY24", rgb |-> <<61, 61, 61>>, std |-> FALSE],
    [name |-> "GRAY25", rgb |-> <<64, 64, 64>>, std |-> FALSE],
    [name |-> "GRAY26", rgb |-> <<66, 66, 66>>, std |-> FALSE],
    [name |-> "GRAY27", rgb |-> <<69, 69, 69>>, std |-> FALSE],
    [name |-> "GRAY28", rgb |-> <<71, 71, 71>>, std |-> FALSE],
    [name |-> "GRAY29", rgb |-> <<74, 74, 74>>, std |-> FALSE],
    [name |-> "GRAY30", rgb |-> <<77, 77, 77>>, std |-> FALSE],
    [name |-> "GRAY31", rgb |-> <<79, 79, 79>>, std |-> FALSE],
    [name |-> "GRAY32", rgb |-> <<82, 82, 82>>, std |-> FALSE],
    [name |-> "GRAY33", rgb |-> <<84, 84, 84>>, std |-> FALSE],
    [name |-> "GRAY34", rgb |-> <<87, 87, 87>>, std |-> FALSE],
    [name |-> "GRAY35", rgb |-> <<89, 89, 89>>, std |-> FALSE],
    [name |-> "GRAY36", rgb |-> <<92, 92, 92>>, std |-> FALSE],
    [name |-> "GRAY37", rgb |-> <<94, 94, 94>>, std |-> FALSE],
    [name |-> "GRAY38", rgb |-> <<97, 97, 97>>, std |-> FALSE],
    [name |-> "GRAY39", rgb |-> <<99, 99, 99>>, std |-> FALSE],
    [name |-> "GRAY40", rgb |-> <<102, 102, 102>>, std |-> FALSE],
    [name |-> "GRAY42", rgb |-> <<107, 107, 107>>, std |-> FALSE],
    [name |-> "GRAY43", rgb |-> <<110, 110, 110>>, std |-> FALSE],
    [name |-> "GRAY44", rgb |-> <<112, 112, 112>>, std |-> FALSE],
    [name |-> "GRAY45", rgb |-> <<115, 115, 115>>, std |-> FALSE],
    [name |-> "GRAY46", rgb |-> <<117, 117, 117>>, std |-> FALSE],
    [name |-> "GRAY47", rgb |-> <<120, 120, 120>>, std |-> FALSE],
    [name |-> "GRAY48", rgb |-> <<122, 122, 122>>, std |-> FALSE],
    [name |-> "GRAY49", rgb |-> <<125, 125, 125>>, std |-> FALSE],
    [name |-> "GRAY50", rgb |-> <<127, 127, 127>>, std |-> FALSE],
    [name |-> "GRAY51", rgb |-> <<130, 130, 130>>, std |-> FALSE],
    [name |-> "GRAY52", rgb |-> <<133, 133, 133>>, std |-> FALSE],
    [name |-> "GRAY53", rgb |-> <<135, 135, 135>>, std |-> FALSE],
    [name |-> "GRAY54", rgb |-> <<138, 138, 138>>, std |-> FALSE],
    [name |-> "GRAY55", rgb |-> <<140, 140, 140>>, std |-> FALSE],
    [name |-> "GRAY56", rgb |-> <<143, 143, 143>>, std |-> FALSE],
    [name |-> "GRAY57", rgb |-> <<145, 145, 145>>, std |-> FALSE],
    [name |-> "GRAY58", rgb |-> <<148, 148, 148>>, std |-> FALSE],
    [name |-> "GRAY59", rgb |-> <<150, 150, 150>>, std |-> FALSE],
    [name |-> "GRAY60", rgb |-> <<153, 153, 153>>, std |-> FALSE],
    [name |-> "GRAY61", rgb |-> <<156, 156, 156>>, std |-> FALSE],
    [name |-> "GRAY62", rgb |-> <<158, 158, 158>>, std |-> FALSE],
    [name |-> "GRAY63", rgb |-> <<161, 161, 161>>, std |-> FALSE],
    [name |-> "GRAY64", rgb |-> <<163, 163, 163>>, std |-> FALSE],
    [name |-> "GRAY65", rgb |-> <<166, 166, 166>>, std |-> FALSE],
    [name |-> "GRAY66", rgb |-> <<168, 168, 168>>, std |-> FALSE],
    [name |-> "GRAY67", rgb |-> <<171, 171, 171>>, std |-> FALSE],
    [name |-> "GRAY68", rgb |-> <<173, 173, 173>>, std |-> FALSE],
    [name |-> "GRAY69", rgb |-> <<176, 176, 176>>, std |-> FALSE],
    [name |-> "GRAY70", rgb |-> <<179, 179, 179>>, std |-> FALSE],
    [name |-> "GRAY71", rgb |-> <<181, 181, 181>>, std |-> FALSE],
    [name |-> "GRAY72", rgb |-> <<184, 184, 184>>, std |-> FALSE],
    [name |-> "GRAY73", rgb |-> <<186, 186, 186>>, std |-> FALSE],
    [name |-> "GRAY74", rgb |-> <<189, 189, 189>>, std |-> FALSE],
    [name |-> "GRAY75", rgb |-> <<191, 191, 191>>, std |-> FALSE],
    [name |-> "GRAY76", rgb |-> <<194, 194, 194>>, std |-> FALSE],
    [name |-> "GRAY77", rgb |-> <<196, 196, 196>>, std |-> FALSE],
    [name |-> "GRAY78", rgb |-> <<199, 199, 199>>, std |-> FALSE],
    [name |-> "GRAY79", rgb |-> <<201, 201, 201>>, std |-> FALSE],
    [name |-> "GRAY80", rgb |-> <<204, 204, 204>>, std |-> FALSE],
    [name |-> "GRAY81", rgb |-> <<207, 207, 207>>, std |-> FALSE],
    [name |-> "GRAY82", rgb |-> <<209, 209, 209>>, std |-> FALSE],
    [name |-> "GRAY83", rgb |-> <<212, 212, 212>>, std |-> FALSE],
    [name |-> "GRAY84", rgb |-> <<214, 214, 214>>, std |-> FALSE],
    [name |-> "GRAY85", rgb |-> <<217, 217, 217>>, std |-> FALSE],
    [name |-> "GRAY86", rgb |-> <<219, 219, 219>>, std |-> FALSE],
    [name |-> "GRAY87", rgb |-> <<222, 222, 222>>, std |-> FALSE],
    [name |-> "GRAY88", rgb |-> <<224, 224, 224>>, std |-> FALSE],
    [name |-> "GRAY89", rgb |-> <<227, 227, 227>>, std |-> FALSE],
    [name |-> "GRAY90", rgb |-> <<229, 229, 229>>, std |-> FALSE],
    [name |-> "GRAY91", rgb |-> <<232, 232, 232>>, std |-> FALSE],
    [name |-> "GRAY92", rgb |-> <<235, 235, 235>>, std |-> FALSE],
    [name |-> "GRAY93", rgb |-> <<237, 237, 237>>, std |-> FALSE],
    [name |-> "GRAY94", rgb |-> <<240, 240, 240>>, std |-> FALSE],
    [name |-> "GRAY95", rgb |-> <<242, 242, 242>>, std |-> FALSE],
    [name |-> "GRAY97", rgb |-> <<247, 247, 247>>, std |-> FALSE],
    [name |-> "GRAY98", rgb |-> <<250, 250, 250>>, std |-> FALSE],
    [name |-> "GRAY99", rgb |-> <<252, 252, 252>>, std |-> FALSE],
    [name |-> "GREEN2", rgb |-> <<0, 238, 0>>, std |-> FALSE],
    [name |-> "GREEN3", rgb |-> <<0, 205, 0>>, std |-> FALSE],
    [name |-> "GREEN4", rgb |-> <<0, 139, 0>>, std |-> FALSE],
    [name |-> "HONEYDEW2", rgb |-> <<224, 238, 224>>, std |-> FALSE],
    [name |-> "HONEYDEW3", rgb |-> <<193, 205, 193>>, std |-> FALSE],
    [name |-> "HONEYDEW4", rgb |-> <<131, 139, 131>>, std |-> FALSE],
    [name |-> "HOTPINK1", rgb |-> <<255, 110, 180>>, std |-> FALSE],
    [name |-> "HOTPINK2", rgb |-> <<238, 106, 167>>, std |-> FALSE],
    [name |-> "HOTPINK3", rgb |-> <<205, 96, 144>>, std |-> FALSE],
    [name |-> "HOTPINK4", rgb |-> <<139, 58, 98>>, std |-> FALSE],
    [name |-> "INDIANRED1", rgb |-> <<255, 106, 106>>, std |-> FALSE],
    [name |-> "INDIANRED2", rgb |-> <<238, 99, 99>>, std |-> FALSE],
    [name |-> "INDIANRED3", rgb |-> <<205, 85, 85>>, std |-> FALSE],
    [name |-> "INDIANRED4", rgb |-> <<139, 58, 58>>, std |-> FALSE],
    [name |-> "IVORY2", rgb |-> <<238, 238, 224>>, std |-> FALSE],
    [name |-> "IVORY3", rgb |-> <<205, 205, 193>>, std |-> FALSE],
    [name |-> "IVORY4", rgb |-> <<139, 139, 131>>, std |-> FALSE],
    [name |-> "IVORYBLACK", rgb |-> <<41, 36, 33>>, std |-> FALSE],
    [name |-> "KHAKI1", rgb |-> <<255, 246, 143>>, std |-> FALSE],
    [name |-> "KHAKI2", rgb |-> <<238, 230, 133>>, std |-> FALSE],
    [name |-> "KHAKI3", rgb |-> <<205, 198, 115>>, std |-> FALSE],
    [name |-> "KHAKI4", rgb |-> <<139, 134, 78>>, std |-> FALSE],
    [name |-> "LAVENDERBLUSH2", rgb |-> <<238, 224, 229>>, std |-> FALSE],
    [name |-> "LAVENDERBLUSH3", rgb |-> <<205, 193, 197>>, std |-> FALSE],
    [name |-> "LAVENDERBLUSH4", rgb |-> <<139, 131, 134>>, std |-> FALSE],
    [name |-> "LEMONCHIFFON2", rgb |-> <<238, 233, 191>>, std |-> FALSE],
    [name |-> "LEMONCHIFFON3", rgb |-> <<205, 201, 165>>, std |-> FALSE],
    [name |-> "LEMONCHIFFON4", rgb |-> <<139, 137, 112>>, std |-> FALSE],
    [name |-> "LIGHTBLUE1", rgb |-> <<191, 239, 255>>, std |-> FALSE],
    [name |-> "LIGHTBLUE2", rgb |-> <<178, 223, 238>>, std |-> FALSE],
    [name |-> "LIGHTBLUE3", rgb |-> <<154, 192, 205>>, std |-> FALSE],
    [name |-> "LIGHTBLUE4", rgb |-> <<104, 131, 139>>, std |-> FALSE],
    [name |-> "LIGHTCYAN2", rgb |-> <<209, 238, 238>>, std |-> FALSE],
    [name |-> "LIGHTCYAN3", rgb |-> <<180, 205, 205>>, std |-> FALSE],
    [name |-> "LIGHTCYAN4", rgb |-> <<122, 139, 139>>, std |-> FALSE],
    [name |-> "LIGHTGOLDENROD1", rgb |-> <<255, 236, 139>>, std |-> FALSE],
    [name |-> "LIGHTGOLDENROD2", rgb |-> <<238, 220, 130>>, std |-> FALSE],
    [name |-> "LIGHTGOLDENROD3", rgb |-> <<205, 190, 112>>, std |-> FALSE],
    [name |-> "LIGHTGOLDENROD4", rgb |-> <<139, 129, 76>>, std |-> FALSE],
    [name |-> "LIGHTPINK1", rgb |-> <<255, 174, 185>>, std |-> FALSE],
    [name |-> "LIGHTPINK2", rgb |-> <<238, 162, 173>>, std |-> FALSE],
    [name |-> "LIGHTPINK3", rgb |-> <<205, 140, 149>>, std |-> FALSE],
    [name |-> "LIGHTPINK4", rgb |-> <<139, 95, 101>>, std |-> FALSE],
    [name |-> "LIGHTSALMON2", rgb |-> <<238, 149, 114>>, std |-> FALSE],
    [name |-> "LIGHTSALMON3", rgb |-> <<205, 129, 98>>, std |-> FALSE],
    [name |-> "LIGHTSALMON4", rgb |-> <<139, 87, 66>>, std |-> FALSE],
    [name |-> "LIGHTSKYBLUE1", rgb |-> <<176, 226, 255>>, std |-> FALSE],
    [name |-> "LIGHTSKYBLUE2", rgb |-> <<164, 211, 238>>, std |-> FALSE],
    [name |-> "LIGHTSKYBLUE3", rgb |-> <<141, 182, 205>>, std |-> FALSE],
    [name |-> "LIGHTSKYBLUE4", rgb |-> <<96, 123, 139>>, std |-> FALSE],
    [name |-> "LIGHTSLATEBLUE", rgb |-> <<132, 112, 255>>, std |-> FALSE],
    [name |-> "LIGHTSTEELBLUE1", rgb |-> <<202, 225, 255>>, std |-> FALSE],
    [name |-> "LIGHTSTEELBLUE2", rgb |-> <<188, 210, 238>>, std |-> FALSE],
    [name |-> "LIGHTSTEELBLUE3", rgb |-> <<162, 181, 205>>, std |-> FALSE],
    [name |-> "LIGHTSTEELBLUE4", rgb |-> <<110, 123, 139>>, std |-> FALSE],
    [name |-> "LIGHTYELLOW2", rgb |-> <<238, 238, 209>>, std |-> FALSE],
    [name |-> "LIGHTYELLOW3", rgb |-> <<205, 205, 180>>, std |-> FALSE],
    [name |-> "LIGHTYELLOW4", rgb |-> <<139, 139, 122>>, std |-> FALSE],
    [name |-> "MAGENTA2", rgb |-> <<238, 0, 238>>, std |-> FALSE],
    [name |-> "MAGENTA3", rgb |-> <<205, 0, 205>>, std |-> FALSE],
    [name |-> "MANGANESEBLUE", rgb |-> <<3, 168, 158>>, std |-> FALSE],
    [name |-> "MAROON1", rgb |-> <<255, 52, 179>>, std |-> FALSE],
    [name |-> "MAROON2", rgb |-> <<238, 48, 167>>, std |-> FALSE],
    [name |-> "MAROON3", rgb |-> <<205, 41, 144>>, std |-> FALSE],
    [name |-> "MAROON4", rgb |-> <<139, 28, 98>>, std |-> FALSE],
    [name |-> "MEDIUMORCHID1", rgb |-> <<224, 102, 255>>, std |-> FALSE],
    [name |-> "MEDIUMORCHID2", rgb |-> <<209, 95, 238>>, std |-> FALSE],
    [name |-> "MEDIUMORCHID3", rgb |-> <<180, 82, 205>>, std |-> FALSE],
    [name |-> "MEDIUMORCHID4", rgb |-> <<122, 55, 139>>, std |-> FALSE],
    [name |-> "MEDIUMPURPLE1", rgb |-> <<171, 130, 255>>, std |-> FALSE],
    [name |-> "MEDIUMPURPLE2", rgb |-> <<159, 121, 238>>, std |-> FALSE],
    [name |-> "MEDIUMPURPLE3", rgb |-> <<137, 104, 205>>, std |-> FALSE],
    [name |-> "MEDIUMPURPLE4", rgb |-> <<93, 71, 139>>, std |-> FALSE],
    [name |-> "MELON", rgb |-> <<227, 168, 105>>, std |-> FALSE],
    [name |-> "MINT", rgb |-> <<189, 252, 201>>, std |-> FALSE],
    [name |-> "MISTYROSE2", rgb |-> <<238, 213, 210>>, std |-> FALSE],
    [name |-> "MISTYROSE3", rgb |-> <<205, 183, 181>>, std |-> FALSE],
    [name |-> "MISTYROSE4", rgb |-> <<139, 125, 123>>, std |-> FALSE],
    [name |-> "NAVAJOWHITE2", rgb |-> <<238, 207, 161>>, std |-> FALSE],
    [name |-> "NAVAJOWHITE3", rgb |-> <<205, 179, 139>>, std |-> FALSE],
    [name |-> "NAVAJOWHITE4", rgb |-> <<139, 121, 94>>, std |-> FALSE],
    [name |-> "OLIVEDRAB1", rgb |-> <<192, 255, 62>>, std |-> FALSE],
    [name |-> "OLIVEDRAB2", rgb |-> <<179, 238, 58>>, std |-> FALSE],
    [name |-> "OLIVEDRAB4", rgb |-> <<105, 139, 34>>, std |-> FALSE],
    [name |-> "ORANGE2", rgb |-> <<238, 154, 0>>, std |-> FALSE],
    [name |-> "ORANGE3", rgb |-> <<205, 133, 0>>, std |-> FALSE],
    [name |-> "ORANGE4", rgb |-> <<139, 90, 0>>, std |-> FALSE],
    [name |-> "ORANGERED2", rgb |-> <<238, 64, 0>>, std |-> FALSE],
    [name |-> "ORANGERED3", rgb |-> <<205, 55, 0>>, std |-> FALSE],
    [name |-> "ORANGERED4", rgb |-> <<139, 37, 0>>, std |-> FALSE],
    [name |-> "ORCHID1", rgb |-> <<255, 131, 250>>, std |-> FALSE],
    [name |-> "ORCHID2", rgb |-> <<238, 122, 233>>, std |-> FALSE],
    [name |-> "ORCHID3", rgb |-> <<205, 105, 201>>, std |-> FALSE],
    [name |-> "ORCHID4", rgb |-> <<139, 71, 137>>, std |-> FALSE],
    [name |-> "PALEGREEN1", rgb |-> <<154, 255, 154>>, std |-> FALSE],
    [name |-> "PALEGREEN3", rgb |-> <<124, 205, 124>>, std |-> FALSE],
    [name |-> "PALEGREEN4", rgb |-> <<84, 139, 84>>, std |-> FALSE],
    [name |-> "PALETURQUOISE1", rgb |-> <<187, 255, 255>>, std |-> FALSE],
    [name |-> "PALETURQUOISE2", rgb |-> <<174, 238, 238>>, std |-> FALSE],
    [name |-> "PALETURQUOISE3", rgb |-> <<150, 205, 205>>, std |-> FALSE],
    [name |-> "PALETURQUOISE4", rgb |-> <<102, 139, 139>>, std |-> FALSE],
    [name |-> "PALEVIOLETRED1", rgb |-> <<255, 130, 171>>, std |-> FALSE],
    [name |-> "PALEVIOLETRED2", rgb |-> <<238, 121, 159>>, std |-> FALSE],
    [name |-> "PALEVIOLETRED3", rgb |-> <<205, 104, 137>>, std |-> FALSE],
    [name |-> "PALEVIOLETRED4", rgb |-> <<139, 71, 93>>, std |-> FALSE],
    [name |-> "PEACHPUFF2", rgb |-> <<238, 203, 173>>, std |-> FALSE],
    [name |-> "PEACHPUFF3", rgb |-> <<205, 175, 149>>, std |-> FALSE],
    [name |-> "PEACHPUFF4", rgb |-> <<139, 119, 101>>, std |-> FALSE],
    [name |-> "PEACOCK", rgb |-> <<51, 161, 201>>, std |-> FALSE],
    [name |-> "PINK1", rgb |-> <<255, 181, 197>>, std |-> FALSE],
    [name |-> "PINK2", rgb |-> <<238, 169, 184>>, std |-> FALSE],
    [name |-> "PINK3", rgb |-> <<205, 145, 158>>, std |-> FALSE],
    [name |-> "PINK4", rgb |-> <<139, 99, 108>>, std |-> FALSE],
    [name |-> "PLUM1", rgb |-> <<255, 187, 255>>, std |-> FALSE],
    [name |-> "PLUM2", rgb |-> <<238, 174, 238>>, std |-> FALSE],
    [name |-> "PLUM3", rgb |-> <<205, 150, 205>>, std |-> FALSE],
    [name |-> "PLUM4", rgb |-> <<139, 102, 139>>, std |-> FALSE],
    [name |-> "PURPLE1", rgb |-> <<155, 48, 255>>, std |-> FALSE],
    [name |-> "PURPLE2", rgb |-> <<145, 44, 238>>, std |-> FALSE],
    [name |-> "PURPLE3", rgb |-> <<125, 38, 205>>, std |-> FALSE],
    [name |-> "PURPLE4", rgb |-> <<85, 26, 139>>, std |-> FALSE],
    [name |-> "RASPBERRY", rgb |-> <<135, 38, 87>>, std |-> FALSE],
    [name |-> "RAWSIENNA", rgb |-> <<199, 97, 20>>, std |-> FALSE],
    [name |-> "REBECCAPURPLE", rgb |-> <<102, 51, 153>>, std |-> FALSE],
    [name |-> "RED2", rgb |-> <<238, 0, 0>>, std |-> FALSE],
    [name |-> "RED3", rgb |-> <<205, 0, 0>>, std |-> FALSE],
    [name |-> "ROSYBROWN1", rgb |-> <<255, 193, 193>>, std |-> FALSE],
    [name |-> "ROSYBROWN2", rgb |-> <<238, 180, 180>>, std |-> FALSE],
    [name |-> "ROSYBROWN3", rgb |-> <<205, 155, 155>>, std |-> FALSE],
    [name |-> "ROSYBROWN4", rgb |-> <<139, 105, 105>>, std |-> FALSE],
    [name |-> "ROYALBLUE1", rgb |-> <<72, 118, 255>>, std |-> FALSE],
    [name |-> "ROYALBLUE2", rgb |-> <<67, 110, 238>>, std |-> FALSE],
    [name |-> "ROYALBLUE3", rgb |-> <<58, 95, 205>>, std |-> FALSE],
    [name |-> "ROYALBLUE4", rgb |-> <<39, 64, 139>>, std |-> FALSE],
    [name |-> "SALMON1", rgb |-> <<255, 140, 105>>, std |-> FALSE],
    [name |-> "SALMON2", rgb |-> <<238, 130, 98>>, std |-> FALSE],
    [name |-> "SALMON3", rgb |-> <<205, 112, 84>>, std |-> FALSE],
    [name |-> "SALMON4", rgb |-> <<139, 76, 57>>, std |-> FALSE],
    [name |-> "SAPGREEN", rgb |-> <<48, 128, 20>>, std |-> FALSE],
    [name |-> "SEAGREEN1", rgb |-> <<84, 255, 159>>, std |-> FALSE],
    [name |-> "SEAGREEN2", rgb |-> <<78, 238, 148>>, std |-> FALSE],
    [name |-> "SEAGREEN3", rgb |-> <<67, 205, 128>>, std |-> FALSE],
    [name |-> "SEASHELL2", rgb |-> <<238, 229, 222>>, std |-> FALSE],
    [name |-> "SEASHELL3", rgb |-> <<205, 197, 191>>, std |-> FALSE],
    [name |-> "SEASHELL4", rgb |-> <<139, 134, 130>>, std |-> FALSE],
    [name |-> "SEPIA", rgb |-> <<94, 38, 18>>, std |-> FALSE],
    [name |-> "SGIBEET", rgb |-> <<142, 56, 142>>, std |-> FALSE],
    [name |-> "SGIBRIGHTGRAY", rgb |-> <<197, 193, 170>>, std |-> FALSE],
    [name |-> "SGICHARTREUSE", rgb |-> <<113, 198, 113>>, std |-> FALSE],
    [name |-> "SGIDARKGRAY", rgb |-> <<85, 85, 85>>, std |-> FALSE],
    [name |-> "SGIGRAY12", rgb |-> <<30, 30, 30>>, std |-> FALSE],
    [name |-> "SGIGRAY16", rgb |-> <<40, 40, 40>>, std |-> FALSE],
    [name |-> "SGIGRAY32", rgb |-> <<81, 81, 81>>, std |-> FALSE],
    [name |-> "SGIGRAY36", rgb |-> <<91, 91, 91>>, std |-> FALSE],
    [name |-> "SGIGRAY52", rgb |-> <<132, 132, 132>>, std |-> FALSE],
    [name |-> "SGIGRAY56", rgb |-> <<142, 142, 142>>, std |-> FALSE],
    [name |-> "SGIGRAY72", rgb |-> <<183, 183, 183>>, std |-> FALSE],
    [name |-> "SGIGRAY76", rgb |-> <<193, 193, 193>>, std |-> FALSE],
    [name |-> "SGIGRAY92", rgb |-> <<234, 234, 234>>, std |-> FALSE],
    [name |-> "SGIGRAY96", rgb |-> <<244, 244, 244>>, std |-> FALSE],
    [name |-> "SGILIGHTBLUE", rgb |-> <<125, 158, 192>>, std |-> FALSE],
    [name |-> "SGILIGHTGRAY", rgb |-> <<170, 170, 170>>, std |-> FALSE],
    [name |-> "SGIOLIVEDRAB", rgb |-> <<142, 142, 56>>, std |-> FALSE],
    [name |-> "SGISALMON", rgb |-> <<198, 113, 113>>, std |-> FALSE],
    [name |-> "SGISLATEBLUE", rgb |-> <<113, 113, 198>>, std |-> FALSE],
    [name |-> "SGITEAL", rgb |-> <<56, 142, 142>>, std |-> FALSE],
    [name |-> "SIENNA1", rgb |-> <<255, 130, 71>>, std |-> FALSE],
    [name |-> "SIENNA2", rgb |-> <<238, 121, 66>>, std |-> FALSE],
    [name |-> "SIENNA3", rgb |-> <<205, 104, 57>>, std |-> FALSE],
    [name |-> "SIENNA4", rgb |-> <<139, 71, 38>>, std |-> FALSE],
    [name |-> "SKYBLUE1", rgb |-> <<135, 206, 255>>, std |-> FALSE],
    [name |-> "SKYBLUE2", rgb |-> <<126, 192, 238>>, std |-> FALSE],
    [name |-> "SKYBLUE3", rgb |-> <<108, 166, 205>>, std |-> FALSE],
    [name |-> "SKYBLUE4", rgb |-> <<74, 112, 139>>, std |-> FALSE],
    [name |-> "SLATEBLUE1", rgb |-> <<131, 111, 255>>, std |-> FALSE],
    [name |-> "SLATEBLUE2", rgb |-> <<122, 103, 238>>, std |-> FALSE],
    [name |-> "SLATEBLUE3", rgb |-> <<105, 89, 205>>, std |-> FALSE],
    [name |-> "SLATEBLUE4", rgb |-> <<71, 60, 139>>, std |-> FALSE],
    [name |-> "SLATEGRAY1", rgb |-> <<198, 226, 255>>, std |-> FALSE],
    [name |-> "SLATEGRAY2", rgb |-> <<185, 211, 238>>, std |-> FALSE],
    [name |-> "SLATEGRAY3", rgb |-> <<159, 182, 205>>, std |-> FALSE],
    [name |-> "SLATEGRAY4", rgb |-> <<108, 123, 139>>, std |-> FALSE],
    [name |-> "SNOW2", rgb |-> <<238, 233, 233>>, std |-> FALSE],
    [name |-> "SNOW3", rgb |-> <<205, 201, 201>>, std |-> FALSE],
    [name |-> "SNOW4", rgb |-> <<139, 137, 137>>, std |-> FALSE],
    [name |-> "SPRINGGREEN1", rgb |-> <<0, 238, 118>>, std |-> FALSE],
    [name |-> "SPRINGGREEN2", rgb |-> <<0, 205, 102>>, std |-> FALSE],
    [name |-> "SPRINGGREEN3", rgb |-> <<0, 139, 69>>, std |-> FALSE],
    [name |-> "STEELBLUE1", rgb |-> <<99, 184, 255>>, std |-> FALSE],
    [name |-> "STEELBLUE2", rgb |-> <<92, 172, 238>>, std |-> FALSE],
    [name |-> "STEELBLUE3", rgb |-> <<79, 148, 205>>, std |-> FALSE],
    [name |-> "STEELBLUE4", rgb |-> <<54, 100, 139>>, std |-> FALSE],
    [name |-> "TAN1", rgb |-> <<255, 165, 79>>, std |-> FALSE],
    [name |-> "TAN2", rgb |-> <<238, 154, 73>>, std |-> FALSE],
    [name |-> "TAN4", rgb |-> <<139, 90, 43>>, std |-> FALSE],
    [name |-> "THISTLE1", rgb |-> <<255, 225, 255>>, std |-> FALSE],
    [name |-> "THISTLE2", rgb |-> <<238, 210, 238>>, std |-> FALSE],
    [name |-> "THISTLE3", rgb |-> <<205, 181, 205>>, std |-> FALSE],
    [name |-> "THISTLE4", rgb |-> <<139, 123, 139>>, std |-> FALSE],
    [name |-> "TOMATO2", rgb |-> <<238, 92, 66>>, std |-> FALSE],
    [name |-> "TOMATO3", rgb |-> <<205, 79, 57>>, std |-> FALSE],
    [name |-> "TOMATO4", rgb |-> <<139, 54, 38>>, std |-> FALSE],
    [name |-> "TURQUOISE1", rgb |-> <<0, 245, 255>>, std |-> FALSE],
    [name |-> "TURQUOISE2", rgb |-> <<0, 229, 238>>, std |-> FALSE],
    [name |-> "TURQUOISE3", rgb |-> <<0, 197, 205>>, std |-> FALSE],
    [name |-> "TURQUOISE4", rgb |-> <<0, 134, 139>>, std |-> FALSE],
    [name |-> "TURQUOISEBLUE", rgb |-> <<0, 199, 140>>, std |-> FALSE],
    [name |-> "VIOLETRED", rgb |-> <<208, 32, 144>>, std |-> FALSE],
    [name |-> "VIOLETRED1", rgb |-> <<255, 62, 150>>, std |-> FALSE],
    [name |-> "VIOLETRED2", rgb |-> <<238, 58, 140>>, std |-> FALSE],
    [name |-> "VIOLETRED3", rgb |-> <<205, 50, 120>>, std |-> FALSE],
    [name |-> "VIOLETRED4", rgb |-> <<139, 34, 82>>, std |-> FALSE],
    [name |-> "WARMGREY", rgb |-> <<128, 128, 105>>, std |-> FALSE],
    [name |-> "WHEAT1", rgb |-> <<255, 231, 186>>, std |-> FALSE],
    [name |-> "WHEAT2", rgb |-> <<238, 216, 174>>, std |-> FALSE],
    [name |-> "WHEAT3", rgb |-> <<205, 186, 150>>, std |-> FALSE],
    [name |-> "WHEAT4", rgb |-> <<139, 126, 102>>, std |-> FALSE],
    [name |-> "YELLOW2", rgb |-> <<238, 238, 0>>, std |-> FALSE],
    [name |-> "YELLOW3", rgb |-> <<205, 205, 0>>, std |-> FALSE],
    [name |-> "YELLOW4", rgb |-> <<139, 139, 0>>, std |-> FALSE]
>>

Members == 1..Len(NamedColor)

\* NamedColor.<NAME>: the member of that name.
Member(nm) == CHOOSE i \in Members : NamedColor[i].name = nm

\* e.value[0]
value0(e) == NamedColor[e].rgb

\* is_standard that answers True for every member, whatever its flag.
is_standard_whatever(e) == TRUE

\* NamedColor.is_standard: self.value[1]
is_standard(e) == NamedColor[e].std

\* NamedColor.BLACK, the member by_value stops at when only_standard is set.
BLACK == Member("BLACK")

(***************************************************************************)
(* Python values that reach by_value as its first positional argument:     *)
(* type is type(value).__name__; the other fields hold the payload of that *)
(* type and a fixed filler otherwise.                                      *)
(***************************************************************************)
PyNone == [type |-> "NoneType", int |-> 0, tup |-> <<>>, member |-> 0, str |-> <<>>]
PyInt(k) == [type |-> "int", int |-> k, tup |-> <<>>, member |-> 0, str |-> <<>>]
PyTuple(t) == [type |-> "tuple", int |-> 0, tup |-> t, member |-> 0, str |-> <<>>]
PyList(t) == [type |-> "list", int |-> 0, tup |-> t, member |-> 0, str |-> <<>>]
PyMember(e) == [type |-> "NamedColor", int |-> 0, tup |-> <<>>, member |-> e, str |-> <<>>]
PyStr(s) == [type |-> "str", int |-> 0, tup |-> <<>>, member |-> 0, str |-> s]

\* None, where a Python name may hold it (alpha, old_alpha, best_match_so_far).
None == <<>>

\* Outcomes of a call: a returned member, a returned tuple, None, or the
\* exception that escaped.
RetMember(e) == [kind |-> "member", val |-> e]
RetTuple(t) == [kind |-> "tuple", val |-> t]
RetNone == [kind |-> "None", val |-> None]
Raise(exc) == [kind |-> exc, val |-> None]

(***************************************************************************)
(* Strings.  A Python str is the sequence of its characters, each a        *)
(* one-character string; the registry's member names (e.name) are given in *)
(* that form, in definition order, beside the registry itself.             *)
(***************************************************************************)
member_name ==
  <<
    <<"L", "I", "G", "H", "T", "S", "A", "L", "M", "O", "N">>,
    <<"D", "A", "R", "K", "S", "A", "L", "M", "O", "N">>,
    <<"L", "I", "G", "H", "T", "C", "O", "R", "A", "L">>,
    <<"S", "A", "L", "M", "O", "N">>,
    <<"I", "N", "D", "I", "A", "N", "R", "E", "D">>,
    <<"C", "R", "I", "M", "S", "O", "N">>,
    <<"R", "E", "D">>,
    <<"F", "I", "R", "E", "B", "R", "I", "C", "K">>,
    <<"D", "A", "R", "K", "R", "E", "D">>,
    <<"M", "A", "R", "O", "O", "N">>,
    <<"P", "I", "N", "K">>,
    <<"L", "I", "G", "H", "T", "P", "I", "N", "K">>,
    <<"H", "O", "T", "P", "I", "N", "K">>,
    <<"P", "A", "L", "E", "V", "I", "O", "L", "E", "T", "R", "E", "D">>,
    <<"D", "E", "E", "P", "P", "I", "N", "K">>,
    <<"M", "E", "D", "I", "U", "M", "V", "I", "O", "L", "E", "T", "R", "E", "D">>,
    <<"C", "O", "R", "A", "L">>,
    <<"T", "O", "M", "A", "T", "O">>,
    <<"O", "R", "A", "N", "G", "E">>,
    <<"D", "A", "R", "K", "O", "R", "A", "N", "G", "E">>,
    <<"O", "R", "A", "N", "G", "E", "R", "E", "D">>,
    <<"L", "I", "G", "H", "T", "Y", "E", "L", "L", "O", "W">>,
    <<"L", "I", "G", "H", "T", "G", "O", "L", "D", "E", "N", "R", "O", "D", "Y", "E", "L", "L", "O", "W">>,
    <<"L", "E", "M", "O", "N", "C", "H", "I", "F", "F", "O", "N">>,
    <<"P", "A", "P", "A", "Y", "A", "W", "H", "I", "P">>,
    <<"M", "O", "C", "C", "A", "S", "I", "N">>,
    <<"P", "E", "A", "C", "H", "P", "U", "F", "F">>,
    <<"P", "A", "L", "E", "G", "O", "L", "D", "E", "N", "R", "O", "D">>,
    <<"K", "H", "A", "K", "I">>,
    <<"Y", "E", "L", "L", "O", "W">>,
    <<"D", "A", "R", "K", "K", "H", "A", "K", "I">>,
    <<"G", "O", "L", "D">>,
    <<"L", "A", "V", "E", "N", "D", "E", "R">>,
    <<"T", "H", "I", "S", "T", "L", "E">>,
    <<"V", "I", "O", "L", "E", "T">>,
    <<"P", "L", "U", "M">>,
    <<"O", "R", "C", "H", "I", "D">>,
    <<"M", "A", "G", "E", "N", "T", "A">>,
    <<"F", "U", "C", "H", "S", "I", "A">>,
    <<"M", "E", "D", "I", "U", "M", "O", "R", "C", "H", "I", "D">>,
    <<"M", "E", "D", "I", "U", "M", "P", "U", "R", "P", "L", "E">>,
    <<"D", "A", "R", "K", "O", "R", "C", "H", "I", "D">>,
    <<"B", "L", "U", "E", "V", "I", "O", "L", "E", "T">>,
    <<"D", "A", "R", "K", "V", "I", "O", "L", "E", "T">>,
    <<"D", "A", "R", "K", "M", "A", "G", "E", "N", "T", "A">>,
    <<"P", "U", "R", "P", "L", "E">>,
    <<"I", "N", "D", "I", "G", "O">>,
    <<"P", "A", "L", "E", "G", "R", "E", "E", "N">>,
    <<"L", "I", "G", "H", "T", "G", "R", "E", "E", "N">>,
    <<"M", "E", "D", "I", "U", "M", "A", "Q", "U", "A", "M", "A", "R", "I", "N", "E">>,
    <<"G", "R", "E", "E", "N", "Y", "E", "L", "L", "O", "W">>,
    <<"D", "A", "R", "K", "S", "E", "A", "G", "R", "E", "E", "N">>,
    <<"Y", "E", "L", "L", "O", "W", "G", "R", "E", "E", "N">>,
    <<"M", "E", "D", "I", "U", "M", "S", "P", "R", "I", "N", "G", "G", "R", "E", "E", "N">>,
    <<"S", "P", "R", "I", "N", "G", "G", "R", "E", "E", "N">>,
    <<"C", "H", "A", "R", "T", "R", "E", "U", "S", "E">>,
    <<"L", "I", "G", "H", "T", "S", "E", "A", "G", "R", "E", "E", "N">>,
    <<"L", "A", "W", "N", "G", "R", "E", "E", "N">>,
    <<"M", "E", "D", "I", "U", "M", "S", "E", "A", "G", "R", "E", "E", "N">>,
    <<"L", "I", "M", "E", "G", "R", "E", "E", "N">>,
    <<"O", "L", "I", "V", "E", "D", "R", "A", "B">>,
    <<"D", "A", "R", "K", "C", "Y", "A", "N">>,
    <<"S", "E", "A", "G", "R", "E", "E", "N">>,
    <<"T", "E", "A", "L">>,
    <<"O", "L", "I", "V", "E">>,
    <<"L", "I", "M", "E">>,
    <<"D", "A", "R", "K", "O", "L", "I", "V", "E", "G", "R", "E", "E", "N">>,
    <<"F", "O", "R", "E", "S", "T", "G", "R", "E", "E", "N">>,
    <<"G", "R", "E", "E", "N">>,
    <<"D", "A", "R", "K", "G", "R", "E", "E", "N">>,
    <<"L", "I", "G", "H", "T", "C", "Y", "A", "N">>,
    <<"P", "A", "L", "E", "T", "U", "R", "Q", "U", "O", "I", "S", "E">>,
    <<"P", "O", "W", "D", "E", "R", "B", "L", "U", "E">>,
    <<"L", "I", "G", "H", "T", "B", "L", "U", "E">>,
    <<"L", "I", "G", "H", "T", "S", "T", "E", "E", "L", "B", "L", "U", "E">>,
    <<"A", "Q", "U", "A", "M", "A", "R", "I", "N", "E">>,
    <<"L", "I", "G", "H", "T", "S", "K", "Y", "B", "L", "U", "E">>,
    <<"S", "K", "Y", "B", "L", "U", "E">>,
    <<"C", "Y", "A", "N">>,
    <<"A", "Q", "U", "A">>,
    <<"T", "U", "R", "Q", "U", "O", "I", "S", "E">>,
    <<"C", "O", "R", "N", "F", "L", "O", "W", "E", "R", "B", "L", "U", "E">>,
    <<"M", "E", "D", "I", "U", "M", "T", "U", "R", "Q", "U", "O", "I", "S", "E">>,
    <<"M", "E", "D", "I", "U", "M", "S", "L", "A", "T", "E", "B", "L", "U", "E">>,
    <<"D", "E", "E", "P", "S", "K", "Y", "B", "L", "U", "E">>,
    <<"D", "O", "D", "G", "E", "R", "B", "L", "U", "E">>,
    <<"D", "A", "R", "K", "T", "U", "R", "Q", "U", "O", "I", "S", "E">>,
    <<"C", "A", "D", "E", "T", "B", "L", "U", "E">>,
    <<"S", "L", "A", "T", "E", "B", "L", "U", "E">>,
    <<"R", "O", "Y", "A", "L", "B", "L", "U", "E">>,
    <<"S", "T", "E", "E", "L", "B", "L", "U", "E">>,
    <<"D", "A", "R", "K", "S", "L", "A", "T", "E", "B", "L", "U", "E">>,
    <<"B", "L", "U", "E">>,
    <<"M", "E", "D", "I", "U", "M", "B", "L", "U", "E">>,
    <<"M", "I", "D", "N", "I", "G", "H", "T", "B", "L", "U", "E">>,
    <<"D", "A", "R", "K", "B", "L", "U", "E">>,
    <<"N", "A", "V", "Y">>,
    <<"C", "O", "R", "N", "S", "I", "L", "K">>,
    <<"B", "L", "A", "N", "C", "H", "E", "D", "A", "L", "M", "O", "N", "D">>,
    <<"B", "I", "S", "Q", "U", "E">>,
    <<"N", "A", "V", "A", "J", "O", "W", "H", "I", "T", "E">>,
    <<"W", "H", "E", "A", "T">>,
    <<"B", "U", "R", "L", "Y", "W", "O", "O", "D">>,
    <<"T", "A", "N">>,
    <<"S", "A", "N", "D", "Y", "B", "R", "O", "W", "N">>,
    <<"R", "O", "S", "Y", "B", "R", "O", "W", "N">>,
    <<"G", "O", "L", "D", "E", "N", "R", "O", "D">>,
    <<"P", "E", "R", "U">>,
    <<"C", "H", "O", "C", "O", "L", "A", "T", "E">>,
    <<"D", "A", "R", "K", "G", "O", "L", "D", "E", "N", "R", "O", "D">>,
    <<"S", "I", "E", "N", "N", "A">>,
    <<"B", "R", "O", "W", "N">>,
    <<"S", "A", "D", "D", "L", "E", "B", "R", "O", "W", "N">>,
    <<"W", "H", "I", "T", "E">>,
    <<"S", "N", "O", "W">>,
    <<"M", "I", "N", "T", "C", "R", "E", "A", "M">>,
    <<"I", "V", "O", "R", "Y">>,
    <<"G", "H", "O", "S", "T", "W", "H", "I", "T", "E">>,
    <<"A", "Z", "U", "R", "E">>,
    <<"F", "L", "O", "R", "A", "L", "W", "H", "I", "T", "E">>,
    <<"A", "L", "I", "C", "E", "B", "L", "U", "E">>,
    <<"S", "E", "A", "S", "H", "E", "L", "L">>,
    <<"L", "A", "V", "E", "N", "D", "E", "R", "B", "L", "U", "S", "H">>,
    <<"W", "H", "I", "T", "E", "S", "M", "O", "K", "E">>,
    <<"H", "O", "N", "E", "Y", "D", "E", "W">>,
    <<"O", "L", "D", "L", "A", "C", "E">>,
    <<"L", "I", "N", "E", "N">>,
    <<"M", "I", "S", "T", "Y", "R", "O", "S", "E">>,
    <<"B", "E", "I", "G", "E">>,
    <<"A", "N", "T", "I", "Q", "U", "E", "W", "H", "I", "T", "E">>,
    <<"G", "A", "I", "N", "S", "B", "O", "R", "O">>,
    <<"L", "I", "G", "H", "T", "G", "R", "A", "Y">>,
    <<"S", "I", "L", "V", "E", "R">>,
    <<"D", "A", "R", "K", "G", "R", "A", "Y">>,
    <<"L", "I", "G", "H", "T", "S", "L", "A", "T", "E", "G", "R", "A", "Y">>,
    <<"S", "L", "A", "T", "E", "G", "R", "A", "Y">>,
    <<"G", "R", "A", "Y">>,
    <<"D", "I", "M", "G", "R", "A", "Y">>,
    <<"D", "A", "R", "K", "S", "L", "A", "T", "E", "G", "R", "A", "Y">>,
    <<"B", "L", "A", "C", "K">>,
    <<"A", "Q", "U", "A", "M", "A", "R", "I", "N", "E", "2">>,
    <<"A", "Q", "U", "A", "M", "A", "R", "I", "N", "E", "4">>,
    <<"A", "N", "T", "I", "Q", "U", "E", "W", "H", "I", "T", "E", "1">>,
    <<"A", "N", "T", "I", "Q", "U", "E", "W", "H", "I", "T", "E", "2">>,
    <<"A", "N", "T", "I", "Q", "U", "E", "W", "H", "I", "T", "E", "3">>,
    <<"A", "N", "T", "I", "Q", "U", "E", "W", "H", "I", "T", "E", "4">>,
    <<"A", "Z", "U", "R", "E", "2">>,
    <<"A", "Z", "U", "R", "E", "3">>,
    <<"A", "Z", "U", "R", "E", "4">>,
    <<"B", "A", "N", "A", "N", "A">>,
    <<"B", "I", "S", "Q", "U", "E", "2">>,
    <<"B", "I", "S", "Q", "U", "E", "3">>,
    <<"B", "I", "S", "Q", "U", "E", "4">>,
    <<"B", "L", "U", "E", "2">>,
    <<"B", "R", "I", "C", "K">>,
    <<"B", "R", "O", "W", "N", "1">>,
    <<"B", "R", "O", "W", "N", "2">>,
    <<"B", "R", "O", "W", "N", "3">>,
    <<"B", "R", "O", "W", "N", "4">>,
    <<"B", "U", "R", "L", "Y", "W", "O", "O", "D", "1">>,
    <<"B", "U", "R", "L", "Y", "W", "O", "O", "D", "2">>,
    <<"B", "U", "R", "L", "Y", "W", "O", "O", "D", "3">>,
    <<"B", "U", "R", "L", "Y", "W", "O", "O", "D", "4">>,
    <<"B", "U", "R", "N", "T", "S", "I", "E", "N", "N", "A">>,
    <<"B", "U", "R", "N", "T", "U", "M", "B", "E", "R">>,
    <<"C", "A", "D", "E", "T", "B", "L", "U", "E", "1">>,
    <<"C", "A", "D", "E", "T", "B", "L", "U", "E", "2">>,
    <<"C", "A", "D", "E", "T", "B", "L", "U", "E", "3">>,
    <<"C", "A", "D", "E", "T", "B", "L", "U", "E", "4">>,
    <<"C", "A", "D", "M", "I", "U", "M", "O", "R", "A", "N", "G", "E">>,
    <<"C", "A", "D", "M", "I", "U", "M", "Y", "E", "L", "L", "O", "W">>,
    <<"C", "A", "R", "R", "O", "T">>,
    <<"C", "H", "A", "R", "T", "R", "E", "U", "S", "E", "2">>,
    <<"C", "H", "A", "R", "T", "R", "E", "U", "S", "E", "3">>,
    <<"C", "H", "A", "R", "T", "R", "E", "U", "S", "E", "4">>,
    <<"C", "H", "O", "C", "O", "L", "A", "T", "E", "1">>,
    <<"C", "H", "O", "C", "O", "L", "A", "T", "E", "2">>,
    <<"C", "H", "O", "C", "O", "L", "A", "T", "E", "3">>,
    <<"C", "O", "B", "A", "L", "T">>,
    <<"C", "O", "B", "A", "L", "T", "G", "R", "E", "E", "N">>,
    <<"C", "O", "L", "D", "G", "R", "E", "Y">>,
    <<"C", "O", "R", "A", "L", "1">>,
    <<"C", "O", "R", "A", "L", "2">>,
    <<"C", "O", "R", "A", "L", "3">>,
    <<"C", "O", "R", "A", "L", "4">>,
    <<"C", "O", "R", "N", "S", "I", "L", "K", "2">>,
    <<"C", "O", "R", "N", "S", "I", "L", "K", "3">>,
    <<"C", "O", "R", "N", "S", "I", "L", "K", "4">>,
    <<"C", "Y", "A", "N", "2">>,
    <<"C", "Y", "A", "N", "3">>,
    <<"D", "A", "R", "K", "G", "O", "L", "D", "E", "N", "R", "O", "D", "1">>,
    <<"D", "A", "R", "K", "G", "O", "L", "D", "E", "N", "R", "O", "D", "2">>,
    <<"D", "A", "R", "K", "G", "O", "L", "D", "E", "N", "R", "O", "D", "3">>,
    <<"D", "A", "R", "K", "G", "O", "L", "D", "E", "N", "R", "O", "D", "4">>,
    <<"D", "A", "R", "K", "O", "L", "I", "V", "E", "G", "R", "E", "E", "N", "1">>,
    <<"D", "A", "R", "K", "O", "L", "I", "V", "E", "G", "R", "E", "E", "N", "2">>,
    <<"D", "A", "R", "K", "O", "L", "I", "V", "E", "G", "R", "E", "E", "N", "3">>,
    <<"D", "A", "R", "K", "O", "L", "I", "V", "E", "G", "R", "E", "E", "N", "4">>,
    <<"D", "A", "R", "K", "O", "R", "A", "N", "G", "E", "1">>,
    <<"D", "A", "R", "K", "O", "R", "A", "N", "G", "E", "2">>,
    <<"D", "A", "R", "K", "O", "R", "A", "N", "G", "E", "3">>,
    <<"D", "A", "R", "K", "O", "R", "A", "N", "G", "E", "4">>,
    <<"D", "A", "R", "K", "O", "R", "C", "H", "I", "D", "1">>,
    <<"D", "A", "R", "K", "O", "R", "C", "H", "I", "D", "2">>,
    <<"D", "A", "R", "K", "O", "R", "C", "H", "I", "D", "3">>,
    <<"D", "A", "R", "K", "O", "R", "C", "H", "I", "D", "4">>,
    <<"D", "A", "R", "K", "S", "E", "A", "G", "R", "E", "E", "N", "1">>,
    <<"D", "A", "R", "K", "S", "E", "A", "G", "R", "E", "E", "N", "2">>,
    <<"D", "A", "R", "K", "S", "E", "A", "G", "R", "E", "E", "N", "3">>,
    <<"D", "A", "R", "K", "S", "E", "A", "G", "R", "E", "E", "N", "4">>,
    <<"D", "A", "R", "K", "S", "L", "A", "T", "E", "G", "R", "A", "Y", "1">>,
    <<"D", "A", "R", "K", "S", "L", "A", "T", "E", "G", "R", "A", "Y", "2">>,
    <<"D", "A", "R", "K", "S", "L", "A", "T", "E", "G", "R", "A", "Y", "3">>,
    <<"D", "A", "R", "K", "S", "L", "A", "T", "E", "G", "R", "A", "Y", "4">>,
    <<"D", "E", "E", "P", "P", "I", "N", "K", "2">>,
    <<"D", "E", "E", "P", "P", "I", "N", "K", "3">>,
    <<"D", "E", "E", "P", "P", "I", "N", "K", "4">>,
    <<"D", "E", "E", "P", "S", "K", "Y", "B", "L", "U", "E", "2">>,
    <<"D", "E", "E", "P", "S", "K", "Y", "B", "L", "U", "E", "3">>,
    <<"D", "E", "E", "P", "S", "K", "Y", "B", "L", "U", "E", "4">>,
    <<"D", "O", "D", "G", "E", "R", "B", "L", "U", "E", "2">>,
    <<"D", "O", "D", "G", "E", "R", "B", "L", "U", "E", "3">>,
    <<"D", "O", "D", "G", "E", "R", "B", "L", "U", "E", "4">>,
    <<"E", "G", "G", "S", "H", "E", "L", "L">>,
    <<"E", "M", "E", "R", "A", "L", "D", "G", "R", "E", "E", "N">>,
    <<"F", "I", "R", "E", "B", "R", "I", "C", "K", "1">>,
    <<"F", "I", "R", "E", "B", "R", "I", "C", "K", "2">>,
    <<"F", "I", "R", "E", "B", "R", "I", "C", "K", "3">>,
    <<"F", "I", "R", "E", "B", "R", "I", "C", "K", "4">>,
    <<"F", "L", "E", "S", "H">>,
    <<"G", "O", "L", "D", "2">>,
    <<"G", "O", "L", "D", "3">>,
    <<"G", "O", "L", "D", "4">>,
    <<"G", "O", "L", "D", "E", "N", "R", "O", "D", "1">>,
    <<"G", "O", "L", "D", "E", "N", "R", "O", "D", "2">>,
    <<"G", "O", "L", "D", "E", "N", "R", "O", "D", "3">>,
    <<"G", "O", "L", "D", "E", "N", "R", "O", "D", "4">>,
    <<"G", "R", "A", "Y", "1">>,
    <<"G", "R", "A", "Y", "2">>,
    <<"G", "R", "A", "Y", "3">>,
    <<"G", "R", "A", "Y", "4">>,
    <<"G", "R", "A", "Y", "5">>,
    <<"G", "R", "A", "Y", "6">>,
    <<"G", "R", "A", "Y", "7">>,
    <<"G", "R", "A", "Y", "8">>,
    <<"G", "R", "A", "Y", "9">>,
    <<"G", "R", "A", "Y", "1", "0">>,
    <<"G", "R", "A", "Y", "1", "1">>,
    <<"G", "R", "A", "Y", "1", "2">>,
    <<"G", "R", "A", "Y", "1", "3">>,
    <<"G", "R", "A", "Y", "1", "4">>,
    <<"G", "R", "A", "Y", "1", "5">>,
    <<"G", "R", "A", "Y", "1", "6">>,
    <<"G", "R", "A", "Y", "1", "7">>,
    <<"G", "R", "A", "Y", "1", "8">>,
    <<"G", "R", "A", "Y", "1", "9">>,
    <<"G", "R", "A", "Y", "2", "0">>,
    <<"G", "R", "A", "Y", "2", "1">>,
    <<"G", "R", "A", "Y", "2", "2">>,
    <<"G", "R", "A", "Y", "2", "3">>,
    <<"G", "R", "A", "Y", "2", "4">>,
    <<"G", "R", "A", "Y", "2", "5">>,
    <<"G", "R", "A", "Y", "2", "6">>,
    <<"G", "R", "A", "Y", "2", "7">>,
    <<"G", "R", "A", "Y", "2", "8">>,
    <<"G", "R", "A", "Y", "2", "9">>,
    <<"G", "R", "A", "Y", "3", "0">>,
    <<"G", "R", "A", "Y", "3", "1">>,
    <<"G", "R", "A", "Y", "3", "2">>,
    <<"G", "R", "A", "Y", "3", "3">>,
    <<"G", "R", "A", "Y", "3", "4">>,
    <<"G", "R", "A", "Y", "3", "5">>,
    <<"G", "R", "A", "Y", "3", "6">>,
    <<"G", "R", "A", "Y", "3", "7">>,
    <<"G", "R", "A", "Y", "3", "8">>,
    <<"G", "R", "A", "Y", "3", "9">>,
    <<"G", "R", "A", "Y", "4", "0">>,
    <<"G", "R", "A", "Y", "4", "2">>,
    <<"G", "R", "A", "Y", "4", "3">>,
    <<"G", "R", "A", "Y", "4", "4">>,
    <<"G", "R", "A", "Y", "4", "5">>,
    <<"G", "R", "A", "Y", "4", "6">>,
    <<"G", "R", "A", "Y", "4", "7">>,
    <<"G", "R", "A", "Y", "4", "8">>,
    <<"G", "R", "A", "Y", "4", "9">>,
    <<"G", "R", "A", "Y", "5", "0">>,
    <<"G", "R", "A", "Y", "5", "1">>,
    <<"G", "R", "A", "Y", "5", "2">>,
    <<"G", "R", "A", "Y", "5", "3">>,
    <<"G", "R", "A", "Y", "5", "4">>,
    <<"G", "R", "A", "Y", "5", "5">>,
    <<"G", "R", "A", "Y", "5", "6">>,
    <<"G", "R", "A", "Y", "5", "7">>,
    <<"G", "R", "A", "Y", "5", "8">>,
    <<"G", "R", "A", "Y", "5", "9">>,
    <<"G", "R", "A", "Y", "6", "0">>,
    <<"G", "R", "A", "Y", "6", "1">>,
    <<"G", "R", "A", "Y", "6", "2">>,
    <<"G", "R", "A", "Y", "6", "3">>,
    <<"G", "R", "A", "Y", "6", "4">>,
    <<"G", "R", "A", "Y", "6", "5">>,
    <<"G", "R", "A", "Y", "6", "6">>,
    <<"G", "R", "A", "Y", "6", "7">>,
    <<"G", "R", "A", "Y", "6", "8">>,
    <<"G", "R", "A", "Y", "6", "9">>,
    <<"G", "R", "A", "Y", "7", "0">>,
    <<"G", "R", "A", "Y", "7", "1">>,
    <<"G", "R", "A", "Y", "7", "2">>,
    <<"G", "R", "A", "Y", "7", "3">>,
    <<"G", "R", "A", "Y", "7", "4">>,
    <<"G", "R", "A", "Y", "7", "5">>,
    <<"G", "R", "A", "Y", "7", "6">>,
    <<"G", "R", "A", "Y", "7", "7">>,
    <<"G", "R", "A", "Y", "7", "8">>,
    <<"G", "R", "A", "Y", "7", "9">>,
    <<"G", "R", "A", "Y", "8", "0">>,
    <<"G", "R", "A", "Y", "8", "1">>,
    <<"G", "R", "A", "Y", "8", "2">>,
    <<"G", "R", "A", "Y", "8", "3">>,
    <<"G", "R", "A", "Y", "8", "4">>,
    <<"G", "R", "A", "Y", "8", "5">>,
    <<"G", "R", "A", "Y", "8", "6">>,
    <<"G", "R", "A", "Y", "8", "7">>,
    <<"G", "R", "A", "Y", "8", "8">>,
    <<"G", "R", "A", "Y", "8", "9">>,
    <<"G", "R", "A", "Y", "9", "0">>,
    <<"G", "R", "A", "Y", "9", "1">>,
    <<"G", "R", "A", "Y", "9", "2">>,
    <<"G", "R", "A", "Y", "9", "3">>,
    <<"G", "R", "A", "Y", "9", "4">>,
    <<"G", "R", "A", "Y", "9", "5">>,
    <<"G", "R", "A", "Y", "9", "7">>,
    <<"G", "R", "A", "Y", "9", "8">>,
    <<"G", "R", "A", "Y", "9", "9">>,
    <<"G", "R", "E", "E", "N", "2">>,
    <<"G", "R", "E", "E", "N", "3">>,
    <<"G", "R", "E", "E", "N", "4">>,
    <<"H", "O", "N", "E", "Y", "D", "E", "W", "2">>,
    <<"H", "O", "N", "E", "Y", "D", "E", "W", "3">>,
    <<"H", "O", "N", "E", "Y", "D", "E", "W", "4">>,
    <<"H", "O", "T", "P", "I", "N", "K", "1">>,
    <<"H", "O", "T", "P", "I", "N", "K", "2">>,
    <<"H", "O", "T", "P", "I", "N", "K", "3">>,
    <<"H", "O", "T", "P", "I", "N", "K", "4">>,
    <<"I", "N", "D", "I", "A", "N", "R", "E", "D", "1">>,
    <<"I", "N", "D", "I", "A", "N", "R", "E", "D", "2">>,
    <<"I", "N", "D", "I", "A", "N", "R", "E", "D", "3">>,
    <<"I", "N", "D", "I", "A", "N", "R", "E", "D", "4">>,
    <<"I", "V", "O", "R", "Y", "2">>,
    <<"I", "V", "O", "R", "Y", "3">>,
    <<"I", "V", "O", "R", "Y", "4">>,
    <<"I", "V", "O", "R", "Y", "B", "L", "A", "C", "K">>,
    <<"K", "H", "A", "K", "I", "1">>,
    <<"K", "H", "A", "K", "I", "2">>,
    <<"K", "H", "A", "K", "I", "3">>,
    <<"K", "H", "A", "K", "I", "4">>,
    <<"L", "A", "V", "E", "N", "D", "E", "R", "B", "L", "U", "S", "H", "2">>,
    <<"L", "A", "V", "E", "N", "D", "E", "R", "B", "L", "U", "S", "H", "3">>,
    <<"L", "A", "V", "E", "N", "D", "E", "R", "B", "L", "U", "S", "H", "4">>,
    <<"L", "E", "M", "O", "N", "C", "H", "I", "F", "F", "O", "N", "2">>,
    <<"L", "E", "M", "O", "N", "C", "H", "I", "F", "F", "O", "N", "3">>,
    <<"L", "E", "M", "O", "N", "C", "H", "I", "F", "F", "O", "N", "4">>,
    <<"L", "I", "G", "H", "T", "B", "L", "U", "E", "1">>,
    <<"L", "I", "G", "H", "T", "B", "L", "U", "E", "2">>,
    <<"L", "I", "G", "H", "T", "B", "L", "U", "E", "3">>,
    <<"L", "I", "G", "H", "T", "B", "L", "U", "E", "4">>,
    <<"L", "I", "G", "H", "T", "C", "Y", "A", "N", "2">>,
    <<"L", "I", "G", "H", "T", "C", "Y", "A", "N", "3">>,
    <<"L", "I", "G", "H", "T", "C", "Y", "A", "N", "4">>,
    <<"L", "I", "G", "H", "T", "G", "O", "L", "D", "E", "N", "R", "O", "D", "1">>,
    <<"L", "I", "G", "H", "T", "G", "O", "L", "D", "E", "N", "R", "O", "D", "2">>,
    <<"L", "I", "G", "H", "T", "G", "O", "L", "D", "E", "N", "R", "O", "D", "3">>,
    <<"L", "I", "G", "H", "T", "G", "O", "L", "D", "E", "N", "R", "O", "D", "4">>,
    <<"L", "I", "G", "H", "T", "P", "I", "N", "K", "1">>,
    <<"L", "I", "G", "H", "T", "P", "I", "N", "K", "2">>,
    <<"L", "I", "G", "H", "T", "P", "I", "N", "K", "3">>,
    <<"L", "I", "G", "H", "T", "P", "I", "N", "K", "4">>,
    <<"L", "I", "G", "H", "T", "S", "A", "L", "M", "O", "N", "2">>,
    <<"L", "I", "G", "H", "T", "S", "A", "L", "M", "O", "N", "3">>,
    <<"L", "I", "G", "H", "T", "S", "A", "L", "M", "O", "N", "4">>,
    <<"L", "I", "G", "H", "T", "S", "K", "Y", "B", "L", "U", "E", "1">>,
    <<"L", "I", "G", "H", "T", "S", "K", "Y", "B", "L", "U", "E", "2">>,
    <<"L", "I", "G", "H", "T", "S", "K", "Y", "B", "L", "U", "E", "3">>,
    <<"L", "I", "G", "H", "T", "S", "K", "Y", "B", "L", "U", "E", "4">>,
    <<"L", "I", "G", "H", "T", "S", "L", "A", "T", "E", "B", "L", "U", "E">>,
    <<"L", "I", "G", "H", "T", "S", "T", "E", "E", "L", "B", "L", "U", "E", "1">>,
    <<"L", "I", "G", "H", "T", "S", "T", "E", "E", "L", "B", "L", "U", "E", "2">>,
    <<"L", "I", "G", "H", "T", "S", "T", "E", "E", "L", "B", "L", "U", "E", "3">>,
    <<"L", "I", "G", "H", "T", "S", "T", "E", "E", "L", "B", "L", "U", "E", "4">>,
    <<"L", "I", "G", "H", "T", "Y", "E", "L", "L", "O", "W", "2">>,
    <<"L", "I", "G", "H", "T", "Y", "E", "L", "L", "O", "W", "3">>,
    <<"L", "I", "G", "H", "T", "Y", "E", "L", "L", "O", "W", "4">>,
    <<"M", "A", "G", "E", "N", "T", "A", "2">>,
    <<"M", "A", "G", "E", "N", "T", "A", "3">>,
    <<"M", "A", "N", "G", "A", "N", "E", "S", "E", "B", "L", "U", "E">>,
    <<"M", "A", "R", "O", "O", "N", "1">>,
    <<"M", "A", "R", "O", "O", "N", "2">>,
    <<"M", "A", "R", "O", "O", "N", "3">>,
    <<"M", "A", "R", "O", "O", "N", "4">>,
    <<"M", "E", "D", "I", "U", "M", "O", "R", "C", "H", "I", "D", "1">>,
    <<"M", "E", "D", "I", "U", "M", "O", "R", "C", "H", "I", "D", "2">>,
    <<"M", "E", "D", "I", "U", "M", "O", "R", "C", "H", "I", "D", "3">>,
    <<"M", "E", "D", "I", "U", "M", "O", "R", "C", "H", "I", "D", "4">>,
    <<"M", "E", "D", "I", "U", "M", "P", "U", "R", "P", "L", "E", "1">>,
    <<"M", "E", "D", "I", "U", "M", "P", "U", "R", "P", "L", "E", "2">>,
    <<"M", "E", "D", "I", "U", "M", "P", "U", "R", "P", "L", "E", "3">>,
    <<"M", "E", "D", "I", "U", "M", "P", "U", "R", "P", "L", "E", "4">>,
    <<"M", "E", "L", "O", "N">>,
    <<"M", "I", "N", "T">>,
    <<"M", "I", "S", "T", "Y", "R", "O", "S", "E", "2">>,
    <<"M", "I", "S", "T", "Y", "R", "O", "S", "E", "3">>,
    <<"M", "I", "S", "T", "Y", "R", "O", "S", "E", "4">>,
    <<"N", "A", "V", "A", "J", "O", "W", "H", "I", "T", "E", "2">>,
    <<"N", "A", "V", "A", "J", "O", "W", "H", "I", "T", "E", "3">>,
    <<"N", "A", "V", "A", "J", "O", "W", "H", "I", "T", "E", "4">>,
    <<"O", "L", "I", "V", "E", "D", "R", "A", "B", "1">>,
    <<"O", "L", "I", "V", "E", "D", "R", "A", "B", "2">>,
    <<"O", "L", "I", "V", "E", "D", "R", "A", "B", "4">>,
    <<"O", "R", "A", "N", "G", "E", "2">>,
    <<"O", "R", "A", "N", "G", "E", "3">>,
    <<"O", "R", "A", "N", "G", "E", "4">>,
    <<"O", "R", "A", "N", "G", "E", "R", "E", "D", "2">>,
    <<"O", "R", "A", "N", "G", "E", "R", "E", "D", "3">>,
    <<"O", "R", "A", "N", "G", "E", "R", "E", "D", "4">>,
    <<"O", "R", "C", "H", "I", "D", "1">>,
    <<"O", "R", "C", "H", "I", "D", "2">>,
    <<"O", "R", "C", "H", "I", "D", "3">>,
    <<"O", "R", "C", "H", "I", "D", "4">>,
    <<"P", "A", "L", "E", "G", "R", "E", "E", "N", "1">>,
    <<"P", "A", "L", "E", "G", "R", "E", "E", "N", "3">>,
    <<"P", "A", "L", "E", "G", "R", "E", "E", "N", "4">>,
    <<"P", "A", "L", "E", "T", "U", "R", "Q", "U", "O", "I", "S", "E", "1">>,
    <<"P", "A", "L", "E", "T", "U", "R", "Q", "U", "O", "I", "S", "E", "2">>,
    <<"P", "A", "L", "E", "T", "U", "R", "Q", "U", "O", "I", "S", "E", "3">>,
    <<"P", "A", "L", "E", "T", "U", "R", "Q", "U", "O", "I", "S", "E", "4">>,
    <<"P", "A", "L", "E", "V", "I", "O", "L", "E", "T", "R", "E", "D", "1">>,
    <<"P", "A", "L", "E", "V", "I", "O", "L", "E", "T", "R", "E", "D", "2">>,
    <<"P", "A", "L", "E", "V", "I", "O", "L", "E", "T", "R", "E", "D", "3">>,
    <<"P", "A", "L", "E", "V", "I", "O", "L", "E", "T", "R", "E", "D", "4">>,
    <<"P", "E", "A", "C", "H", "P", "U", "F", "F", "2">>,
    <<"P", "E", "A", "C", "H", "P", "U", "F", "F", "3">>,
    <<"P", "E", "A", "C", "H", "P", "U", "F", "F", "4">>,
    <<"P", "E", "A", "C", "O", "C", "K">>,
    <<"P", "I", "N", "K", "1">>,
    <<"P", "I", "N", "K", "2">>,
    <<"P", "I", "N", "K", "3">>,
    <<"P", "I", "N", "K", "4">>,
    <<"P", "L", "U", "M", "1">>,
    <<"P", "L", "U", "M", "2">>,
    <<"P", "L", "U", "M", "3">>,
    <<"P", "L", "U", "M", "4">>,
    <<"P", "U", "R", "P", "L", "E", "1">>,
    <<"P", "U", "R", "P", "L", "E", "2">>,
    <<"P", "U", "R", "P", "L", "E", "3">>,
    <<"P", "U", "R", "P", "L", "E", "4">>,
    <<"R", "A", "S", "P", "B", "E", "R", "R", "Y">>,
    <<"R", "A", "W", "S", "I", "E", "N", "N", "A">>,
    <<"R", "E", "B", "E", "C", "C", "A", "P", "U", "R", "P", "L", "E">>,
    <<"R", "E", "D", "2">>,
    <<"R", "E", "D", "3">>,
    <<"R", "O", "S", "Y", "B", "R", "O", "W", "N", "1">>,
    <<"R", "O", "S", "Y", "B", "R", "O", "W", "N", "2">>,
    <<"R", "O", "S", "Y", "B", "R", "O", "W", "N", "3">>,
    <<"R", "O", "S", "Y", "B", "R", "O", "W", "N", "4">>,
    <<"R", "O", "Y", "A", "L", "B", "L", "U", "E", "1">>,
    <<"R", "O", "Y", "A", "L", "B", "L", "U", "E", "2">>,
    <<"R", "O", "Y", "A", "L", "B", "L", "U", "E", "3">>,
    <<"R", "O", "Y", "A", "L", "B", "L", "U", "E", "4">>,
    <<"S", "A", "L", "M", "O", "N", "1">>,
    <<"S", "A", "L", "M", "O", "N", "2">>,
    <<"S", "A", "L", "M", "O", "N", "3">>,
    <<"S", "A", "L", "M", "O", "N", "4">>,
    <<"S", "A", "P", "G", "R", "E", "E", "N">>,
    <<"S", "E", "A", "G", "R", "E", "E", "N", "1">>,
    <<"S", "E", "A", "G", "R", "E", "E", "N", "2">>,
    <<"S", "E", "A", "G", "R", "E", "E", "N", "3">>,
    <<"S", "E", "A", "S", "H", "E", "L", "L", "2">>,
    <<"S", "E", "A", "S", "H", "E", "L", "L", "3">>,
    <<"S", "E", "A", "S", "H", "E", "L", "L", "4">>,
    <<"S", "E", "P", "I", "A">>,
    <<"S", "G", "I", "B", "E", "E", "T">>,
    <<"S", "G", "I", "B", "R", "I", "G", "H", "T", "G", "R", "A", "Y">>,
    <<"S", "G", "I", "C", "H", "A", "R", "T", "R", "E", "U", "S", "E">>,
    <<"S", "G", "I", "D", "A", "R", "K", "G", "R", "A", "Y">>,
    <<"S", "G", "I", "G", "R", "A", "Y", "1", "2">>,
    <<"S", "G", "I", "G", "R", "A", "Y", "1", "6">>,
    <<"S", "G", "I", "G", "R", "A", "Y", "3", "2">>,
    <<"S", "G", "I", "G", "R", "A", "Y", "3", "6">>,
    <<"S", "G", "I", "G", "R", "A", "Y", "5", "2">>,
    <<"S", "G", "I", "G", "R", "A", "Y", "5", "6">>,
    <<"S", "G", "I", "G", "R", "A", "Y", "7", "2">>,
    <<"S", "G", "I", "G", "R", "A", "Y", "7", "6">>,
    <<"S", "G", "I", "G", "R", "A", "Y", "9", "2">>,
    <<"S", "G", "I", "G", "R", "A", "Y", "9", "6">>,
    <<"S", "G", "I", "L", "I", "G", "H", "T", "B", "L", "U", "E">>,
    <<"S", "G", "I", "L", "I", "G", "H", "T", "G", "R", "A", "Y">>,
    <<"S", "G", "I", "O", "L", "I", "V", "E", "D", "R", "A", "B">>,
    <<"S", "G", "I", "S", "A", "L", "M", "O", "N">>,
    <<"S", "G", "I", "S", "L", "A", "T", "E", "B", "L", "U", "E">>,
    <<"S", "G", "I", "T", "E", "A", "L">>,
    <<"S", "I", "E", "N", "N", "A", "1">>,
    <<"S", "I", "E", "N", "N", "A", "2">>,
    <<"S", "I", "E", "N", "N", "A", "3">>,
    <<"S", "I", "E", "N", "N", "A", "4">>,
    <<"S", "K", "Y", "B", "L", "U", "E", "1">>,
    <<"S", "K", "Y", "B", "L", "U", "E", "2">>,
    <<"S", "K", "Y", "B", "L", "U", "E", "3">>,
    <<"S", "K", "Y", "B", "L", "U", "E", "4">>,
    <<"S", "L", "A", "T", "E", "B", "L", "U", "E", "1">>,
    <<"S", "L", "A", "T", "E", "B", "L", "U", "E", "2">>,
    <<"S", "L", "A", "T", "E", "B", "L", "U", "E", "3">>,
    <<"S", "L", "A", "T", "E", "B", "L", "U", "E", "4">>,
    <<"S", "L", "A", "T", "E", "G", "R", "A", "Y", "1">>,
    <<"S", "L", "A", "T", "E", "G", "R", "A", "Y", "2">>,
    <<"S", "L", "A", "T", "E", "G", "R", "A", "Y", "3">>,
    <<"S", "L", "A", "T", "E", "G", "R", "A", "Y", "4">>,
    <<"S", "N", "O", "W", "2">>,
    <<"S", "N", "O", "W", "3">>,
    <<"S", "N", "O", "W", "4">>,
    <<"S", "P", "R", "I", "N", "G", "G", "R", "E", "E", "N", "1">>,
    <<"S", "P", "R", "I", "N", "G", "G", "R", "E", "E", "N", "2">>,
    <<"S", "P", "R", "I", "N", "G", "G", "R", "E", "E", "N", "3">>,
    <<"S", "T", "E", "E", "L", "B", "L", "U", "E", "1">>,
    <<"S", "T", "E", "E", "L", "B", "L", "U", "E", "2">>,
    <<"S", "T", "E", "E", "L", "B", "L", "U", "E", "3">>,
    <<"S", "T", "E", "E", "L", "B", "L", "U", "E", "4">>,
    <<"T", "A", "N", "1">>,
    <<"T", "A", "N", "2">>,
    <<"T", "A", "N", "4">>,
    <<"T", "H", "I", "S", "T", "L", "E", "1">>,
    <<"T", "H", "I", "S", "T", "L", "E", "2">>,
    <<"T", "H", "I", "S", "T", "L", "E", "3">>,
    <<"T", "H", "I", "S", "T", "L", "E", "4">>,
    <<"T", "O", "M", "A", "T", "O", "2">>,
    <<"T", "O", "M", "A", "T", "O", "3">>,
    <<"T", "O", "M", "A", "T", "O", "4">>,
    <<"T", "U", "R", "Q", "U", "O", "I", "S", "E", "1">>,
    <<"T", "U", "R", "Q", "U", "O", "I", "S", "E", "2">>,
    <<"T", "U", "R", "Q", "U", "O", "I", "S", "E", "3">>,
    <<"T", "U", "R", "Q", "U", "O", "I", "S", "E", "4">>,
    <<"T", "U", "R", "Q", "U", "O", "I", "S", "E", "B", "L", "U", "E">>,
    <<"V", "I", "O", "L", "E", "T", "R", "E", "D">>,
    <<"V", "I", "O", "L", "E", "T", "R", "E", "D", "1">>,
    <<"V", "I", "O", "L", "E", "T", "R", "E", "D", "2">>,
    <<"V", "I", "O", "L", "E", "T", "R", "E", "D", "3">>,
    <<"V", "I", "O", "L", "E", "T", "R", "E", "D", "4">>,
    <<"W", "A", "R", "M", "G", "R", "E", "Y">>,
    <<"W", "H", "E", "A", "T", "1">>,
    <<"W", "H", "E", "A", "T", "2">>,
    <<"W", "H", "E", "A", "T", "3">>,
    <<"W", "H", "E", "A", "T", "4">>,
    <<"Y", "E", "L", "L", "O", "W", "2">>,
    <<"Y", "E", "L", "L", "O", "W", "3">>,
    <<"Y", "E", "L", "L", "O", "W", "4">>
  >>

Upper == <<"A", "B", "C", "D", "E", "F", "G", "H", "I", "J", "K", "L", "M",
           "N", "O", "P", "Q", "R", "S", "T", "U", "V", "W", "X", "Y", "Z">>
Lower == <<"a", "b", "c", "d", "e", "f", "g", "h", "i", "j", "k", "l", "m",
           "n", "o", "p", "q", "r", "s", "t", "u", "v", "w", "x", "y", "z">>
HexDigits == <<"0", "1", "2", "3", "4", "5", "6", "7", "8", "9",
               "a", "b", "c", "d", "e", "f">>
DecDigits == SubSeq(HexDigits, 1, 10)
Whitespace == {" ", "\t", "\n", "\r"}

\* The first position of x in the sequence seq, 0 when it is not there.
Pos(seq, x) ==
    IF \E i \in DOMAIN seq : seq[i] = x
    THEN CHOOSE i \in DOMAIN seq : seq[i] = x /\ \A j \in 1..(i - 1) : seq[j] # x
    ELSE 0

casefold_char(c) == LET i == Pos(Upper, c) IN IF i = 0 THEN c ELSE Lower[i]
upper_char(c) == LET i == Pos(Lower, c) IN IF i = 0 THEN c ELSE Upper[i]

\* str.casefold() and str.upper(), on the ASCII letters
RECURSIVE casefold(_)
casefold(s) == IF s = <<>> THEN <<>> ELSE <<casefold_char(s[1])>> \o casefold(Tail(s))

RECURSIVE upper(_)
upper(s) == IF s = <<>> THEN <<>> ELSE <<upper_char(s[1])>> \o upper(Tail(s))

\* str.strip(): leading and trailing whitespace removed
strip(s) ==
    LET keep == {i \in 1..Len(s) : s[i] \notin Whitespace}
    IN  IF keep = {}
        THEN <<>>
        ELSE SubSeq(s, CHOOSE i \in keep : \A j \in keep : i <= j,
                       CHOOSE i \in keep : \A j \in keep : j <= i)

\* str.split(sep) for a one-character separator
RECURSIVE split(_, _)
split(s, sep) ==
    LET i == Pos(s, sep)
    IN  IF i = 0
        THEN <<s>>
        ELSE <<SubSeq(s, 1, i - 1)>> \o split(SubSeq(s, i + 1, Len(s)), sep)

\* int(x) of a str x accepts a non-empty run of decimal digits (no sign,
\* blank or underscore survives the re.sub that precedes it); anything else
\* raises ValueError.
is_decimal(x) == x # <<>> /\ \A i \in 1..Len(x) : Pos(DecDigits, x[i]) # 0

RECURSIVE int_of_str(_)
int_of_str(x) ==
    IF x = <<>>
    THEN 0
    ELSE 10 * int_of_str(SubSeq(x, 1, Len(x) - 1)) + (Pos(DecDigits, x[Len(x)]) - 1)

is_hex(c) == Pos(HexDigits, casefold_char(c)) # 0
hex_value(c) == Pos(HexDigits, casefold_char(c)) - 1

(***************************************************************************)
(* enum_by_name (enums.py lines 13-33), for enum_class = NamedColor.       *)
(* enum_class[name] is the member of exactly that name, KeyError when      *)
(* there is none (the enum is @unique: it has no alias).  name.strip() on  *)
(* a value that is neither None nor a str raises AttributeError.           *)
(***************************************************************************)
enum_class_getitem(nm) == Pos(member_name, nm)

\* enum_by_name that gives up after the casefold attempt
enum_by_name_no_upper(nm) ==
    IF nm.type = "NoneType"
    THEN RetNone
    ELSE IF nm.type # "str"
    THEN Raise("AttributeError")
    ELSE LET stripped == strip(nm.str)
             exact == enum_class_getitem(stripped)
             folded == enum_class_getitem(casefold(stripped))
         IN  IF exact # 0 THEN RetMember(exact)
             ELSE IF folded # 0 THEN RetMember(folded)
             ELSE RetNone

enum_by_name(nm) ==
    IF nm.type = "NoneType"
    THEN RetNone
    ELSE IF nm.type # "str"
    THEN Raise("AttributeError")
    ELSE LET stripped == strip(nm.str)
             exact == enum_class_getitem(stripped)
             folded == enum_class_getitem(casefold(stripped))
             uppered == enum_class_getitem(upper(stripped))
         IN  IF exact # 0 THEN RetMember(exact)
             ELSE IF folded # 0 THEN RetMember(folded)
             ELSE IF uppered # 0 THEN RetMember(uppered)
             ELSE RetNone

\* GWEnum.by_name (enums.py lines 138-146)
by_name(nm) == enum_by_name(nm)

(***************************************************************************)
(* color_parse (colors.py lines 865-938).                                  *)
(*  - "not expr" is Python truthiness: None, '', () and [] are falsy.      *)
(*  - colormap2 is a dict from str to values; None stands for the empty    *)
(*    dict (line 905-906).                                                 *)
(*  - re.sub(r"[^#0-9a-fA-F,]", "", expr) keeps the characters # , and the *)
(*    hex digits; applied to a value that is not a str it raises TypeError.*)
(*  - re.match(r"#?([0-9a-fA-F]{6,8})", expr) matches at the start: an     *)
(*    optional #, then the longest run of 6 to 8 hex digits.               *)
(*  - bytes.fromhex raises ValueError on an odd number of digits.          *)
(*  - color starts as the falsy result of by_name (None), and stays None   *)
(*    when neither the hex form nor the comma form assigns it; default is  *)
(*    consulted only at the top, for a falsy expr.                         *)
(***************************************************************************)
PyTruthy(v) ==
    CASE v.type = "NoneType" -> FALSE
      [] v.type = "str" -> v.str # <<>>
      [] v.type \in {"tuple", "list"} -> v.tup # <<>>
      [] v.type = "int" -> v.int # 0
      [] OTHER -> TRUE

EmptyMap == <<>>

re_sub(expr) == SelectSeq(expr, LAMBDA c : is_hex(c) \/ c \in {"#", ","})

\* m[1] of the re.match, <<>> when it does not match
re_match(expr) ==
    LET start == IF expr # <<>> /\ expr[1] = "#" THEN 2 ELSE 1
        runs == {k \in 0..8 : /\ start + k - 1 <= Len(expr)
                              /\ \A i \in start..(start + k - 1) : is_hex(expr[i])}
        run == CHOOSE k \in runs : \A j \in runs : j <= k
    IN  IF run < 6 THEN <<>> ELSE SubSeq(expr, start, start + run - 1)

\* bytes.fromhex reading each pair of digits low digit first
bytes_fromhex_swapped(h) ==
    [i \in 1..(Len(h) \div 2) |-> hex_value(h[2 * i - 1]) + 16 * hex_value(h[2 * i])]

\* tuple(int(x) for x in bytes.fromhex(h)), h of even length
bytes_fromhex(h) ==
    [i \in 1..(Len(h) \div 2) |-> 16 * hex_value(h[2 * i - 1]) + hex_value(h[2 * i])]

\* lines 929-938, expr a str
color_parse_forms(expr) ==
    LET kept == re_sub(expr)
        m == re_match(kept)
        parts == split(kept, ",")
    IN  IF m # <<>>
        THEN IF Len(m) % 2 = 1 THEN Raise("ValueError") ELSE RetTuple(bytes_fromhex(m))
        ELSE IF Len(parts) >= 3
        THEN IF \A i \in 1..Len(parts) : is_decimal(parts[i])
             THEN RetTuple([i \in 1..Len(parts) |-> int_of_str(parts[i])])
             ELSE Raise("ValueError")
        ELSE RetNone

color_parse(expr, colormap2, default) ==
    LET expr1 == IF PyTruthy(expr) THEN expr ELSE default
    IN  IF ~PyTruthy(expr1) THEN RetNone
        ELSE IF expr1.type \in {"tuple", "list"} THEN RetTuple(expr1.tup)
        ELSE IF expr1.type = "NamedColor" THEN RetTuple(value0(expr1.member))
        ELSE LET key == casefold(strip(expr1.str))
                 expr2 == IF expr1.type = "str" /\ key \in DOMAIN colormap2
                          THEN colormap2[key]
                          ELSE IF expr1.type = "str" THEN PyStr(key) ELSE expr1
                 expr3 == IF expr2.type = "str"
                          THEN PyStr(casefold(strip(expr2.str)))
                          ELSE expr2
                 color == by_name(expr3)
             IN  IF color.kind = "member" THEN RetTuple(value0(color.val))
                 ELSE IF color.kind # "None" THEN color
                 ELSE IF expr3.type # "str" THEN Raise("TypeError")
                 ELSE color_parse_forms(expr3.str)

(***************************************************************************)
(* color_distance.  The code returns math.sqrt of the sum of squares; the  *)
(* model keeps the sum of squares itself (sqrt is strictly increasing, so  *)
(* every comparison between two distances is the comparison of their       *)
(* squares).  The early "return 0.0" on equal channels is kept.            *)
(***************************************************************************)
color_distance(int_tuple1, int_tuple2) ==
    LET red1 == int_tuple1[1]
        green1 == int_tuple1[2]
        blue1 == int_tuple1[3]
        red2 == int_tuple2[1]
        green2 == int_tuple2[2]
        blue2 == int_tuple2[3]
    IN  IF red1 = red2 /\ green1 = green2 /\ blue1 = blue2
        THEN 0
        ELSE (red1 - red2) * (red1 - red2) + (green1 - green2) * (green1 - green2)
             + (blue1 - blue2) * (blue1 - blue2)

\* best_match_off_by = 99999 (a distance, not a square)
best_match_off_by_init == 99999

\* best_match_off_by before any member was taken: stands for the literal above.
Unset == -1

\* off_by <= 0.001, on the square: sqrt(s) <= 0.001 iff s <= 0.000001, and s is
\* an integer.
is_exact(off_by) == off_by <= 0

\* off_by_less with <= for <: a later member as near as the best so far
\* replaces it.
off_by_less_or_equal(off_by, best_match_off_by) ==
    IF best_match_off_by = Unset
    THEN off_by \div best_match_off_by_init < best_match_off_by_init
    ELSE off_by <= best_match_off_by

\* off_by < best_match_off_by, on squares.  Against the initial literal L:
\* sqrt(s) < L  iff  s < L*L  iff  s \div L < L  (L*L itself exceeds 32 bits).
off_by_less(off_by, best_match_off_by) ==
    IF best_match_off_by = Unset
    THEN off_by \div best_match_off_by_init < best_match_off_by_init
    ELSE off_by < best_match_off_by

\* by_value_body with the break taken at BLACK whether or not only_standard is set.
by_value_body_always_break(value, only_standard, st, e) ==
    IF st.out # "loop"
    THEN st
    ELSE LET off_by == color_distance(value, value0(e))
             better == off_by_less(off_by, st.off_by)
             so_far == IF better THEN e ELSE st.so_far
             best == IF better THEN off_by ELSE st.off_by
         IN  IF is_exact(off_by)
             THEN [so_far |-> e, off_by |-> st.off_by, out |-> "return"]
             ELSE [so_far |-> so_far, off_by |-> best,
                   out |-> IF e = BLACK THEN "break" ELSE "loop"]

\* by_value_body without the break: only_standard is ignored.
by_value_body_never_break(value, only_standard, st, e) ==
    IF st.out # "loop"
    THEN st
    ELSE LET off_by == color_distance(value, value0(e))
             better == off_by_less(off_by, st.off_by)
             so_far == IF better THEN e ELSE st.so_far
             best == IF better THEN off_by ELSE st.off_by
         IN  IF is_exact(off_by)
             THEN [so_far |-> e, off_by |-> st.off_by, out |-> "return"]
             ELSE [so_far |-> so_far, off_by |-> best,
                   out |-> "loop"]

(***************************************************************************)
(* The loop of by_value (lines 844-856).  The loop state is                *)
(*   so_far  best_match_so_far (0 for None),                               *)
(*   off_by  best_match_off_by,                                            *)
(*   out     "loop" while iterating, "return" after the exact-match return *)
(*           (so_far then holds the returned member), "break" after the    *)
(*           only_standard break.                                          *)
(* by_value_body is one iteration for member e; by_value_loop runs the     *)
(* iterations for members lo..hi in definition order (split in halves only *)
(* to keep the evaluation shallow: the iterations and their order are the  *)
(* loop's).                                                                *)
(***************************************************************************)
\* One iteration of the loop, for member e.
by_value_body(value, only_standard, st, e) ==
    IF st.out # "loop"
    THEN st
    ELSE LET off_by == color_distance(value, value0(e))
             better == off_by_less(off_by, st.off_by)
             so_far == IF better THEN e ELSE st.so_far
             best == IF better THEN off_by ELSE st.off_by
         IN  IF is_exact(off_by)
             THEN [so_far |-> e, off_by |-> st.off_by, out |-> "return"]
             ELSE [so_far |-> so_far, off_by |-> best,
                   out |-> IF only_standard /\ e = BLACK THEN "break" ELSE "loop"]

RECURSIVE by_value_loop(_, _, _, _, _)
by_value_loop(value, only_standard, st, lo, hi) ==
    IF lo > hi
    THEN st
    ELSE IF lo = hi
    THEN by_value_body(value, only_standard, st, lo)
    ELSE LET mid == (lo + hi) \div 2
             first == by_value_loop(value, only_standard, st, lo, mid)
         IN  IF first.out # "loop"
             THEN first
             ELSE by_value_loop(value, only_standard, first, mid + 1, hi)

\* What by_value returns after the loop: best_match_so_far.
by_value_found(st) == IF st.so_far = 0 THEN RetNone ELSE RetMember(st.so_far)

\* The search of by_value (lines 844-856) for the colour v.  color_distance
\* unpacks v[:3] into three names, which raises ValueError when v has fewer
\* than three elements.
by_value_search(v, only_standard) ==
    IF Len(v) < 3
    THEN Raise("ValueError")
    ELSE by_value_found(by_value_loop(v, only_standard,
                                      [so_far |-> 0, off_by |-> Unset, out |-> "loop"],
                                      1, Len(NamedColor)))

\* by_value once value is what the conversions of lines 837-842 made of it:
\* an exception of color_parse escapes, and the None it returns for a string
\* of no form makes color_distance raise TypeError (None[:3]).
by_value_converted(converted, only_standard) ==
    IF converted.kind = "None"
    THEN Raise("TypeError")
    ELSE IF converted.kind # "tuple"
    THEN converted
    ELSE by_value_search(converted.val, only_standard)

\* by_value that takes a member for its RGB triple instead of rejecting its type.
by_value_any_type(value, args, only_standard) ==
    IF value.type = "NoneType"
    THEN RetNone
    ELSE IF value.type \notin {"int", "str", "tuple", "NamedColor"}
    THEN Raise("ValueError")
    ELSE by_value_converted(
             IF value.type = "str" THEN color_parse(value, EmptyMap, PyNone)
             ELSE IF value.type = "int" THEN RetTuple(<<value.int>> \o args)
             ELSE IF value.type = "NamedColor" THEN RetTuple(value0(value.member))
             ELSE RetTuple(value.tup),
             only_standard)

(***************************************************************************)
(* NamedColor.by_value(value, /, *args, only_standard=False).              *)
(* A str value is replaced by color_parse(value), positional ints are      *)
(* gathered into one tuple, and a value of any other type than None, int,  *)
(* str and tuple is rejected.                                              *)
(***************************************************************************)
by_value(value, args, only_standard) ==
    IF value.type = "NoneType"
    THEN RetNone
    ELSE IF value.type \notin {"int", "str", "tuple"}
    THEN Raise("ValueError")
    ELSE by_value_converted(
             IF value.type = "str" THEN color_parse(value, EmptyMap, PyNone)
             ELSE IF value.type = "int" THEN RetTuple(<<value.int>> \o args)
             ELSE RetTuple(value.tup),
             only_standard)

(***************************************************************************)
(* Numbers of the tuple codec: exact rationals <<n, d>>, d > 0, in lowest  *)
(* terms.  x / 255 and x * 255 are exact here; Python computes them in     *)
(* IEEE doubles, whose rounding does not change int(x * 255) for any of    *)
(* the values used below.                                                  *)
(***************************************************************************)
RECURSIVE GCD(_, _)
GCD(a, b) == IF b = 0 THEN a ELSE GCD(b, a % b)

Abs(n) == IF n < 0 THEN -n ELSE n

Rat(n, d) ==
    LET g == GCD(Abs(n), d)
    IN  IF n = 0 THEN <<0, 1>> ELSE <<n \div g, d \div g>>

IntNum(k) == <<k, 1>>

NumLess(x, y) == x[1] * y[2] < y[1] * x[2]

\* int(x): truncation toward zero
Trunc(n, d) == IF n >= 0 THEN n \div d ELSE -((-n) \div d)

\* Python truthiness of a number or None: None, 0 and 0.0 are falsy.
Truthy(x) == x # None /\ x[1] # 0

\* is_float_tuple: not any(value > 1.0 or value < 0.0 for value in color_tuple)
is_float_tuple(color_tuple) ==
    ~ \E i \in DOMAIN color_tuple :
        NumLess(IntNum(1), color_tuple[i]) \/ NumLess(color_tuple[i], IntNum(0))

\* float_color: min(int_color / 255, 1.0) if int_color is not None else None
float_color(int_color) ==
    IF int_color = None
    THEN None
    ELSE LET q == Rat(int_color[1], int_color[2] * 255)
         IN  IF NumLess(IntNum(1), q) THEN IntNum(1) ELSE q

\* int_color: min(int(float_color * 255), 255) if float_color is not None else None
int_color(float_color_) ==
    IF float_color_ = None
    THEN None
    ELSE LET k == Trunc(float_color_[1] * 255, float_color_[2])
         IN  IF 255 < k THEN IntNum(255) ELSE IntNum(k)

\* color_tuple[:3]
First3(t) == SubSeq(t, 1, IF Len(t) < 3 THEN Len(t) ELSE 3)

(***************************************************************************)
(* float_tuple(color_tuple, alpha=None), lines 1012-1028.                  *)
(***************************************************************************)
float_tuple(color_tuple, alpha) ==
    IF color_tuple = <<>>
    THEN RetNone
    ELSE IF is_float_tuple(color_tuple)
    THEN IF Truthy(alpha)
         THEN RetTuple(First3(color_tuple) \o <<alpha>>)
         ELSE RetTuple(color_tuple)
    ELSE IF Len(color_tuple) \notin {3, 4}
    THEN Raise("ValueError")
    ELSE LET red == color_tuple[1]
             green == color_tuple[2]
             blue == color_tuple[3]
             old_alpha == IF Len(color_tuple) = 3 THEN None ELSE color_tuple[4]
             alpha_ == IF ~Truthy(alpha) THEN float_color(old_alpha) ELSE alpha
         IN  IF alpha_ # None
             THEN RetTuple(<<float_color(red), float_color(green), float_color(blue), alpha_>>)
             ELSE RetTuple(<<float_color(red), float_color(green), float_color(blue)>>)

(***************************************************************************)
(* int_tuple(float_tuple, alpha=None), lines 1050-1064.  The else branch   *)
(* builds its message with len(int_tuple), and int_tuple there is the      *)
(* function itself: evaluating the f-string raises TypeError, so the       *)
(* ValueError is never constructed.  The last element of the 4-tuple is    *)
(* int_color(alpha) of a value that int_color has already converted (or of *)
(* the caller's alpha).                                                    *)
(***************************************************************************)
int_tuple(float_tuple_, alpha) ==
    IF float_tuple_ = <<>>
    THEN RetNone
    ELSE IF Len(float_tuple_) \notin {3, 4}
    THEN Raise("TypeError")
    ELSE LET red == float_tuple_[1]
             green == float_tuple_[2]
             blue == float_tuple_[3]
             old_alpha == IF Len(float_tuple_) = 3 THEN None ELSE float_tuple_[4]
             alpha_ == IF ~Truthy(alpha) THEN int_color(old_alpha) ELSE alpha
         IN  IF alpha_ # None
             THEN RetTuple(<<int_color(red), int_color(green), int_color(blue), int_color(alpha_)>>)
             ELSE RetTuple(<<int_color(red), int_color(green), int_color(blue)>>)

(***************************************************************************)
(* Arithmetic on the codec's numbers.                                      *)
(***************************************************************************)
RatAdd(x, y) == Rat(x[1] * y[2] + y[1] * x[2], x[2] * y[2])
RatSub(x, y) == Rat(x[1] * y[2] - y[1] * x[2], x[2] * y[2])
RatMul(x, y) == Rat(x[1] * y[1], x[2] * y[2])
\* x / y, y # 0
RatDiv(x, y) == IF y[1] < 0 THEN Rat(-(x[1] * y[2]), x[2] * (-y[1])) ELSE Rat(x[1] * y[2], x[2] * y[1])
RatMax(x, y) == IF NumLess(x, y) THEN y ELSE x
RatMin(x, y) == IF NumLess(y, x) THEN y ELSE x
\* x % 1.0: the result has the sign of the divisor
RatMod1(x) == Rat(x[1] % x[2], x[2])

\* An int tuple (e.value[0], a result of color_parse) as codec numbers.
Nums(t) == [i \in 1..Len(t) |-> IntNum(t[i])]

\* Lexicographic order of tuples of numbers, as Python compares tuples.
RECURSIVE TupleLess(_, _)
TupleLess(s, t) ==
    IF s = <<>> THEN t # <<>>
    ELSE IF t = <<>> THEN FALSE
    ELSE IF NumLess(s[1], t[1]) THEN TRUE
    ELSE IF NumLess(t[1], s[1]) THEN FALSE
    ELSE TupleLess(Tail(s), Tail(t))

(***************************************************************************)
(* colorsys.rgb_to_hsv(r, g, b) and colorsys.hsv_to_rgb(h, s, v), imported *)
(* at colors.py line 5.  args is the list of positional arguments of the   *)
(* call: binding anything but three arguments raises TypeError.  Python    *)
(* computes in IEEE doubles; the values here are the exact ones.           *)
(***************************************************************************)
rgb_to_hsv(args) ==
    IF Len(args) # 3
    THEN Raise("TypeError")
    ELSE LET r == args[1]
             g == args[2]
             b == args[3]
             maxc == RatMax(r, RatMax(g, b))
             minc == RatMin(r, RatMin(g, b))
             rangec == RatSub(maxc, minc)
             v == maxc
             s == RatDiv(rangec, maxc)
             rc == RatDiv(RatSub(maxc, r), rangec)
             gc == RatDiv(RatSub(maxc, g), rangec)
             bc == RatDiv(RatSub(maxc, b), rangec)
             h == IF r = maxc THEN RatSub(bc, gc)
                  ELSE IF g = maxc THEN RatSub(RatAdd(IntNum(2), rc), bc)
                  ELSE RatSub(RatAdd(IntNum(4), gc), rc)
         IN  IF minc = maxc
             THEN RetTuple(<<IntNum(0), IntNum(0), v>>)
             ELSE RetTuple(<<RatMod1(RatDiv(h, IntNum(6))), s, v>>)

hsv_to_rgb(args) ==
    IF Len(args) # 3
    THEN Raise("TypeError")
    ELSE LET h == args[1]
             s == args[2]
             v == args[3]
             h6 == RatMul(h, IntNum(6))
             i == Trunc(h6[1], h6[2])
             f == RatSub(h6, IntNum(i))
             one == IntNum(1)
             p == RatMul(v, RatSub(one, s))
             q == RatMul(v, RatSub(one, RatMul(s, f)))
             t == RatMul(v, RatSub(one, RatMul(s, RatSub(one, f))))
         IN  IF s[1] = 0 THEN RetTuple(<<v, v, v>>)
             ELSE CASE i % 6 = 0 -> RetTuple(<<v, t, p>>)
                    [] i % 6 = 1 -> RetTuple(<<q, v, p>>)
                    [] i % 6 = 2 -> RetTuple(<<p, v, t>>)
                    [] i % 6 = 3 -> RetTuple(<<p, q, v>>)
                    [] i % 6 = 4 -> RetTuple(<<t, p, v>>)
                    [] OTHER -> RetTuple(<<v, p, q>>)

\* float_hue (colors.py lines 983-990), for the int hue color_monochrome
\* passes: max(0.0, min(hue / 360, 1.0))
float_hue(hue) == RatMax(IntNum(0), RatMin(Rat(hue[1], hue[2] * 360), IntNum(1)))

(***************************************************************************)
(* color_brightness: int(sum(int_tuple[:3]) / 3).  The result is a plain   *)
(* integer.  int_tuple[:3] of None raises TypeError in the callers below.  *)
(***************************************************************************)
RECURSIVE sum(_)
sum(t) == IF t = <<>> THEN IntNum(0) ELSE RatAdd(t[1], sum(Tail(t)))

color_brightness(int_tuple_) ==
    LET third == RatDiv(sum(First3(int_tuple_)), IntNum(3))
    IN  Trunc(third[1], third[2])

\* int(x): truncation of a number, as a number
int(x) == IntNum(Trunc(x[1], x[2]))

(***************************************************************************)
(* color_lighter and color_darker.  "red, green, blue = int_tuple[:3]"     *)
(* raises ValueError when the slice has fewer than three elements.         *)
(***************************************************************************)
\* color_lighter that takes half of the way to white without the channel itself
color_lighter_no_base(int_tuple_) ==
    IF Len(int_tuple_) < 3
    THEN Raise("ValueError")
    ELSE LET half(ch) == int(RatDiv(RatSub(IntNum(255), ch), IntNum(2)))
         IN  RetTuple(<<half(int_tuple_[1]), half(int_tuple_[2]), half(int_tuple_[3])>>)

color_lighter(int_tuple_) ==
    IF Len(int_tuple_) < 3
    THEN Raise("ValueError")
    ELSE LET half(ch) == int(RatAdd(ch, RatDiv(RatSub(IntNum(255), ch), IntNum(2))))
         IN  RetTuple(<<half(int_tuple_[1]), half(int_tuple_[2]), half(int_tuple_[3])>>)

color_darker(int_tuple_) ==
    IF Len(int_tuple_) < 3
    THEN Raise("ValueError")
    ELSE LET half(ch) == int(RatDiv(ch, IntNum(2)))
         IN  RetTuple(<<half(int_tuple_[1]), half(int_tuple_[2]), half(int_tuple_[3])>>)

(***************************************************************************)
(* color_subdued and color_outline (colors.py lines 1120-1153).  A tuple   *)
(* that is_float_tuple accepts goes through int_tuple first and the result *)
(* goes through float_tuple at the end; an exception of either escapes,    *)
(* and the None that int_tuple returns for () makes color_brightness       *)
(* raise TypeError.                                                        *)
(***************************************************************************)
\* is_dark = color_brightness(color_tuple) < 128, in both functions
\* (is_dark_inclusive: the test reads "<= 128", brightness 128 counts as dark)
is_dark_inclusive(color_tuple) == color_brightness(color_tuple) <= 128

is_dark(color_tuple) == color_brightness(color_tuple) < 128

color_subdued(color_tuple) ==
    LET was_float == is_float_tuple(color_tuple)
        ints == IF was_float THEN int_tuple(color_tuple, None) ELSE RetTuple(color_tuple)
    IN  IF ints.kind = "None" THEN Raise("TypeError")
        ELSE IF ints.kind # "tuple" THEN ints
        ELSE LET result == IF is_dark(ints.val)
                           THEN color_lighter(ints.val)
                           ELSE color_darker(ints.val)
             IN  IF result.kind # "tuple" THEN result
                 ELSE IF was_float THEN float_tuple(result.val, None)
                 ELSE result

color_outline(color_tuple) ==
    LET was_float == is_float_tuple(color_tuple)
        ints == IF was_float THEN int_tuple(color_tuple, None) ELSE RetTuple(color_tuple)
    IN  IF ints.kind = "None" THEN Raise("TypeError")
        ELSE IF ints.kind # "tuple" THEN ints
        ELSE LET result == IF is_dark(ints.val)
                           THEN <<IntNum(255), IntNum(255), IntNum(255)>>
                           ELSE <<IntNum(0), IntNum(0), IntNum(0)>>
             IN  IF was_float THEN float_tuple(result, None) ELSE RetTuple(result)

(***************************************************************************)
(* color_monochrome (lines 1077-1088) calls rgb_to_hsv with ONE argument,  *)
(* the tuple float_tuple returned (or its None).                           *)
(***************************************************************************)
hue_default == -1

color_monochrome(int_tuple_, hue) ==
    LET floats == float_tuple(int_tuple_, None)
    IN  IF floats.kind \notin {"tuple", "None"} THEN floats
        ELSE LET hsv == rgb_to_hsv(<<floats.val>>)
             IN  IF hsv.kind # "tuple" THEN hsv
                 ELSE hsv_to_rgb(<<float_hue(hue), hsv.val[2], hsv.val[3]>>)

(***************************************************************************)
(* color_complementary (lines 1156-1182) calls rgb_to_hsv with ONE         *)
(* argument, the slice color_tuple[:3], and hsv_to_rgb with one argument,  *)
(* a tuple whose first element is the list comp_hue.  The result is a list *)
(* of tuples; subscripting the None of float_tuple(()) cannot happen, as   *)
(* () is a float tuple and is not converted.                               *)
(***************************************************************************)
RetList(l) == [kind |-> "list", val |-> l]

color_complementary(color_tuple, degrees) ==
    LET was_int == ~is_float_tuple(color_tuple)
        floats == IF was_int THEN float_tuple(color_tuple, None) ELSE RetTuple(color_tuple)
    IN  IF floats.kind # "tuple" THEN floats
        ELSE LET hsv == rgb_to_hsv(<<First3(floats.val)>>)
                 float_distance == Rat(degrees[1], degrees[2] * 720)
                 half == Rat(1, 2)
                 comp_hue1 == <<RatMod1(RatSub(RatAdd(hsv.val[1], half), float_distance))>>
                 comp_hue2 == <<RatMod1(RatAdd(RatAdd(hsv.val[1], half), float_distance))>>
                 first == hsv_to_rgb(<< <<comp_hue1, hsv.val[2], hsv.val[3]>> >>)
                 second == hsv_to_rgb(<< <<comp_hue2, hsv.val[2], hsv.val[3]>> >>)
                 back(c) == IF was_int THEN int_tuple(c.val, None).val ELSE c.val
             IN  IF hsv.kind # "tuple" THEN hsv
                 ELSE IF first.kind # "tuple" THEN first
                 ELSE IF NumLess(IntNum(0), degrees)
                 THEN IF second.kind # "tuple" THEN second
                      ELSE RetList(<<back(first), back(second)>>)
                 ELSE RetList(<<back(first)>>)

(***************************************************************************)
(* color_hex_format (lines 1185-1201).  '{:02X}' of an int is its          *)
(* upper-case hex, zero-padded to two characters (a negative int keeps its *)
(* sign); of a number that is not integral it raises ValueError.  len() of *)
(* the None that int_tuple returns for () raises TypeError.                *)
(***************************************************************************)
RetStr(s) == [kind |-> "str", val |-> s]

RECURSIVE hex_upper(_)
hex_upper(k) ==
    IF k < 16
    THEN <<upper_char(HexDigits[k + 1])>>
    ELSE hex_upper(k \div 16) \o <<upper_char(HexDigits[(k % 16) + 1])>>

\* '{:02X}'.format(k), k an int
format_02X(k) ==
    IF k < 0 THEN <<"-">> \o hex_upper(-k)
    ELSE IF k < 16 THEN <<"0">> \o hex_upper(k)
    ELSE hex_upper(k)

RECURSIVE format_all(_)
format_all(t) == IF t = <<>> THEN <<>> ELSE format_02X(t[1][1]) \o format_all(Tail(t))

color_hex_format(color_tuple) ==
    LET ints == IF is_float_tuple(color_tuple)
                THEN int_tuple(color_tuple, None)
                ELSE RetTuple(color_tuple)
    IN  IF ints.kind = "None" THEN Raise("TypeError")
        ELSE IF ints.kind # "tuple" THEN ints
        ELSE IF Len(ints.val) \notin {3, 4} THEN RetStr(<<>>)
        ELSE IF \E i \in 1..Len(ints.val) : ints.val[i][2] # 1 THEN Raise("ValueError")
        ELSE RetStr(<<"#">> \o format_all(ints.val))

(***************************************************************************)
(* Methods of a member (colors.py lines 676-777) that the calls below use. *)
(***************************************************************************)
\* e.hex_format()
hex_format(e) == color_hex_format(Nums(value0(e)))

\* e.float_tuple(alpha=1.0), with the default left out
member_float_tuple_no_alpha(e, alpha) == float_tuple(Nums(value0(e)), None)

\* e.float_tuple(alpha=1.0): the caller passes alpha or the default 1.0
member_float_tuple(e, alpha) == float_tuple(Nums(value0(e)), alpha)

\* e.brightness()
brightness(e) == color_brightness(Nums(value0(e)))

\* e.hsv(): rgb_to_hsv(*self.float_tuple()[:3])
hsv(e) == rgb_to_hsv(First3(member_float_tuple(e, IntNum(1)).val))

(***************************************************************************)
(* NamedColor.all_colors (lines 779-807).                                  *)
(*  - The filter tests e.is_standard, the bound method itself, not its     *)
(*    result: a method object is truthy.                                   *)
(*  - key_named_hue calls color.named_hue(), which no class defines: the   *)
(*    sort raises AttributeError on the first key it computes.             *)
(*  - list.sort is stable: members with equal keys keep definition order.  *)
(*    The hue keys are the exact values of e.hsv(); Python compares their  *)
(*    IEEE roundings.                                                      *)
(***************************************************************************)
\* bool(e.is_standard), the method object
is_standard_method(e) == TRUE

\* Python orders two str by the code points of their characters: the digits
\* come before the upper-case letters, and those before the lower-case ones.
CharOrder == DecDigits \o Upper \o Lower

RECURSIVE ords(_)
ords(s) == IF s = <<>> THEN <<>> ELSE <<Pos(CharOrder, s[1])>> \o ords(Tail(s))

\* s < t for the code points of two str: the first difference decides, and a
\* proper prefix comes first
StrLess(s, t) ==
    \/ \E i \in 1..Len(s) : /\ i <= Len(t)
                            /\ s[i] < t[i]
                            /\ \A j \in 1..(i - 1) : s[j] = t[j]
    \/ (Len(s) < Len(t) /\ \A j \in 1..Len(s) : s[j] = t[j])

\* key_fn(color) for the sort_by given (lines 784-800); key_named_hue aside
key_fn(sort_by, color) ==
    IF sort_by \in {"hue", "hsv"} THEN hsv(color).val
    ELSE IF sort_by \in {"brightness", "bright"} THEN brightness(color)
    ELSE ords(member_name[color])

\* k1 < k2 for two keys of the same sort_by
KeyLess(sort_by, k1, k2) ==
    IF sort_by \in {"hue", "hsv"} THEN TupleLess(k1, k2)
    ELSE IF sort_by \in {"brightness", "bright"} THEN k1 < k2
    ELSE StrLess(k1, k2)

\* <<key_fn(result[lo]), ..., key_fn(result[hi])>>
RECURSIVE keys_of(_, _, _, _)
keys_of(result, sort_by, lo, hi) ==
    IF hi < lo THEN <<>>
    ELSE IF lo = hi THEN <<key_fn(sort_by, result[lo])>>
    ELSE LET mid == (lo + hi) \div 2
         IN  keys_of(result, sort_by, lo, mid) \o keys_of(result, sort_by, mid + 1, hi)

\* The position each element takes in the sorted list: one more than the
\* number of elements that go before it, those with a smaller key and those
\* with an equal key that stand earlier.
RECURSIVE ranks_of(_, _, _, _)
ranks_of(keys, sort_by, lo, hi) ==
    IF hi < lo THEN <<>>
    ELSE IF lo = hi
    THEN <<1 + Cardinality({b \in 1..Len(keys) :
                \/ KeyLess(sort_by, keys[b], keys[lo])
                \/ (b < lo /\ ~KeyLess(sort_by, keys[lo], keys[b]))})>>
    ELSE LET mid == (lo + hi) \div 2
         IN  ranks_of(keys, sort_by, lo, mid) \o ranks_of(keys, sort_by, mid + 1, hi)

RECURSIVE place(_, _, _, _)
place(result, ranks, lo, hi) ==
    IF hi < lo THEN <<>>
    ELSE IF lo = hi THEN <<result[CHOOSE a \in 1..Len(ranks) : ranks[a] = lo]>>
    ELSE LET mid == (lo + hi) \div 2
         IN  place(result, ranks, lo, mid) \o place(result, ranks, mid + 1, hi)

\* result.sort(key=key_fn)
sort(result, sort_by) ==
    LET keys == keys_of(result, sort_by, 1, Len(result))
        ranks == ranks_of(keys, sort_by, 1, Len(result))
    IN  place(result, ranks, 1, Len(result))

\* for e in cls: if not only_standard or <filter>: result.append(e)
RECURSIVE members_from(_, _, _)
members_from(only_standard, lo, hi) ==
    IF hi < lo THEN <<>>
    ELSE IF lo = hi
    THEN IF ~only_standard \/ is_standard_method(lo) THEN <<lo>> ELSE <<>>
    ELSE LET mid == (lo + hi) \div 2
         IN  members_from(only_standard, lo, mid) \o members_from(only_standard, mid + 1, hi)

all_colors(only_standard, sort_by) ==
    LET result == members_from(only_standard, 1, Len(NamedColor))
    IN  IF sort_by = "named_hue"
        THEN IF result = <<>> THEN RetList(<<>>) ELSE Raise("AttributeError")
        ELSE RetList(sort(result, sort_by))

(***************************************************************************)
(* GWEnum (enums.py lines 36-158).  An enum class is given by its          *)
(* __name__, its members in definition order (name and value of each) and  *)
(* whether it overrides value_count to return 1, as the docstring of       *)
(* value_count invites (test_enum.py lines 21-22).  Values are Python      *)
(* values: None, an int, a str, or a tuple of values.                      *)
(***************************************************************************)
GWNone == [type |-> "NoneType", int |-> 0, str |-> <<>>, items |-> <<>>]
GWInt(k) == [type |-> "int", int |-> k, str |-> <<>>, items |-> <<>>]
GWStr(s) == [type |-> "str", int |-> 0, str |-> s, items |-> <<>>]
GWTuple(t) == [type |-> "tuple", int |-> 0, str |-> <<>>, items |-> t]

\* "not value": None, 0, '' and () are falsy
GWTruthy(v) ==
    CASE v.type = "NoneType" -> FALSE
      [] v.type = "int" -> v.int # 0
      [] v.type = "str" -> v.str # <<>>
      [] v.type = "tuple" -> v.items # <<>>

\* str(k) of an int k
RECURSIVE str_of_nat(_)
str_of_nat(k) ==
    IF k < 10
    THEN <<DecDigits[k + 1]>>
    ELSE str_of_nat(k \div 10) \o <<DecDigits[(k % 10) + 1]>>

str_of_int(k) == IF k < 0 THEN <<"-">> \o str_of_nat(-k) ELSE str_of_nat(k)

\* str(v) and repr(v): a str is itself under str and quoted under repr (the
\* strings used here hold no quote and no backslash); a tuple shows the
\* repr of its items, a single item followed by a comma.
RECURSIVE repr_of(_)
RECURSIVE repr_items(_)
repr_items(t) ==
    IF Len(t) = 1
    THEN repr_of(t[1])
    ELSE repr_of(t[1]) \o <<",", " ">> \o repr_items(Tail(t))

repr_of(v) ==
    CASE v.type = "NoneType" -> <<"N", "o", "n", "e">>
      [] v.type = "int" -> str_of_int(v.int)
      [] v.type = "str" -> <<"'">> \o v.str \o <<"'">>
      [] v.type = "tuple" ->
            IF v.items = <<>> THEN <<"(", ")">>
            ELSE IF Len(v.items) = 1 THEN <<"(">> \o repr_of(v.items[1]) \o <<",", ")">>
            ELSE <<"(">> \o repr_items(v.items) \o <<")">>

str_of(v) == IF v.type = "str" THEN v.str ELSE repr_of(v)

\* e.value and e.name of the member e (its position) of the class cls
value_of(cls, e) == cls.members[e].value
name_of(cls, e) == cls.members[e].name

\* GWEnum.value_count (lines 70-83), or its override returning 1
value_count(cls, e) ==
    IF cls.value_count_is_1
    THEN 1
    ELSE IF value_of(cls, e).type = "tuple" THEN Len(value_of(cls, e).items) ELSE 1

\* GWEnum.primary_value (lines 85-93)
primary_value(cls, e) ==
    IF value_count(cls, e) = 1 THEN value_of(cls, e) ELSE value_of(cls, e).items[1]

\* GWEnum.display_name (lines 54-62)
display_name(cls, e) ==
    IF primary_value(cls, e).type = "str"
    THEN primary_value(cls, e).str
    ELSE name_of(cls, e)

\* GWEnum.default (lines 148-158): the first member defined
GWEnum_default(cls) == 1

\* The message of the GWValueError of line 136
no_such_message(cls, value) ==
    <<"N", "o", " ", "s", "u", "c", "h", " ">> \o cls.name \o <<" ", "w", "i", "t", "h", " ", "a", " ", "p", "r", "i", "m", "a", "r", "y", " ", "v", "a", "l", "u", "e", " ", "o", "f", " ">> \o str_of(value)

\* The exceptions that "except ValueError" catches.  GWValueError is imported
\* from kivygw.utils.exceptions (line 5), which does not define it; it is
\* taken for a ValueError, as tests/test_enum.py line 116 expects.
ValueErrorKinds == {"ValueError", "GWValueError"}

\* An exception that escapes with a message
RaiseWith(exc, message) == [kind |-> exc, val |-> message]

\* value in [e.primary_value(), str(e.primary_value()).casefold(), e.name.casefold()]
by_value_matches(cls, e, value) ==
    \/ value = primary_value(cls, e)
    \/ value = GWStr(casefold(str_of(primary_value(cls, e))))
    \/ value = GWStr(casefold(name_of(cls, e)))

\* The loop of lines 133-136, from member e on
RECURSIVE by_value_scan(_, _, _)
by_value_scan(cls, e, value) ==
    IF e > Len(cls.members)
    THEN RaiseWith("GWValueError", no_such_message(cls, value))
    ELSE IF by_value_matches(cls, e, value)
    THEN RetMember(e)
    ELSE by_value_scan(cls, e + 1, value)

\* GWEnum.by_value (lines 127-136)
GWEnum_by_value(cls, value) ==
    IF ~GWTruthy(value)
    THEN RetMember(GWEnum_default(cls))
    ELSE by_value_scan(cls, 1,
                       IF value.type = "str"
                       THEN GWStr(casefold(strip(value.str)))
                       ELSE value)

\* NamedColor is a GWEnum whose values are tuples (rgb, flag): the primary
\* value of a member is its rgb tuple, so its display_name() is its name.
NamedColor_display_name(e) == member_name[e]

(***************************************************************************)
(* snake_case (strings.py lines 9-15).                                     *)
(* re.findall(r"([a-z0-9]+|[A-Z][a-z0-9]*|[^A-Za-z0-9]+)", identifier)     *)
(* cuts the identifier, left to right, into words: a run of lower-case     *)
(* letters and digits; else an upper-case letter and the run of lower-case *)
(* letters and digits that follows it; else a run of other characters.     *)
(* Every character starts one of the three, so nothing is skipped.         *)
(***************************************************************************)
is_lower_or_digit(c) == Pos(Lower, c) # 0 \/ Pos(DecDigits, c) # 0
is_upper(c) == Pos(Upper, c) # 0
is_other(c) == ~is_lower_or_digit(c) /\ ~is_upper(c)

\* The number of characters of s from position i on that are all lower-case
\* letters or digits (lower_or_digit TRUE), or all other characters.
RECURSIVE run_length(_, _, _)
run_length(s, i, lower_or_digit) ==
    IF i > Len(s) \/ ~(IF lower_or_digit THEN is_lower_or_digit(s[i]) ELSE is_other(s[i]))
    THEN 0
    ELSE 1 + run_length(s, i + 1, lower_or_digit)

\* The length of the word that findall matches at the start of s (s not empty)
word_length(s) ==
    IF is_lower_or_digit(s[1]) THEN run_length(s, 1, TRUE)
    ELSE IF is_upper(s[1]) THEN 1 + run_length(s, 2, TRUE)
    ELSE run_length(s, 1, FALSE)

RECURSIVE findall(_)
findall(s) ==
    IF s = <<>>
    THEN <<>>
    ELSE <<SubSeq(s, 1, word_length(s))>> \o findall(SubSeq(s, word_length(s) + 1, Len(s)))

\* str.lower(), on the ASCII letters
lower_char(c) == IF Pos(Upper, c) = 0 THEN c ELSE Lower[Pos(Upper, c)]

RECURSIVE lower(_)
lower(s) == IF s = <<>> THEN <<>> ELSE <<lower_char(s[1])>> \o lower(Tail(s))

\* [word.lower() for word in words if word != "_"]
lower_words(words) ==
    LET kept == SelectSeq(words, LAMBDA word : word # <<"_">>)
    IN  [i \in 1..Len(kept) |-> lower(kept[i])]

\* sep.join(words)
RECURSIVE join(_, _)
join(sep, words) ==
    IF words = <<>> THEN <<>>
    ELSE IF Len(words) = 1 THEN words[1]
    ELSE words[1] \o sep \o join(sep, Tail(words))

snake_case(identifier) == RetStr(join(<<"_">>, lower_words(findall(identifier))))

(***************************************************************************)
(* Keystroke expressions (keystrokes.py).  The three tables are the dicts  *)
(* of lines 17-93, 96-113 and 118-125, entry by entry in source order; a   *)
(* key is a str, given as the sequence of its characters (the horizontal   *)
(* ellipsis of line 72 is written "U+2026").                               *)
(***************************************************************************)
KEYCODES ==
  <<
    [key |-> <<"b", "a", "c", "k", "s", "p", "a", "c", "e">>, value |-> 8],
    [key |-> <<"t", "a", "b">>, value |-> 9],
    [key |-> <<"e", "n", "t", "e", "r">>, value |-> 13],
    [key |-> <<"r", "s", "h", "i", "f", "t">>, value |-> 303],
    [key |-> <<"s", "h", "i", "f", "t">>, value |-> 304],
    [key |-> <<"a", "l", "t">>, value |-> 308],
    [key |-> <<"r", "c", "t", "r", "l">>, value |-> 306],
    [key |-> <<"l", "c", "t", "r", "l">>, value |-> 305],
    [key |-> <<"s", "u", "p", "e", "r">>, value |-> 309],
    [key |-> <<"a", "l", "t", "-", "g", "r">>, value |-> 307],
    [key |-> <<"c", "o", "m", "p", "o", "s", "e">>, value |-> 311],
    [key |-> <<"p", "i", "p", "e">>, value |-> 310],
    [key |-> <<"c", "a", "p", "s", "l", "o", "c", "k">>, value |-> 301],
    [key |-> <<"e", "s", "c", "a", "p", "e">>, value |-> 27],
    [key |-> <<"s", "p", "a", "c", "e", "b", "a", "r">>, value |-> 32],
    [key |-> <<"p", "a", "g", "e", "u", "p">>, value |-> 280],
    [key |-> <<"p", "a", "g", "e", "d", "o", "w", "n">>, value |-> 281],
    [key |-> <<"e", "n", "d">>, value |-> 279],
    [key |-> <<"h", "o", "m", "e">>, value |-> 278],
    [key |-> <<"l", "e", "f", "t">>, value |-> 276],
    [key |-> <<"u", "p">>, value |-> 273],
    [key |-> <<"r", "i", "g", "h", "t">>, value |-> 275],
    [key |-> <<"d", "o", "w", "n">>, value |-> 274],
    [key |-> <<"i", "n", "s", "e", "r", "t">>, value |-> 277],
    [key |-> <<"d", "e", "l", "e", "t", "e">>, value |-> 127],
    [key |-> <<"n", "u", "m", "l", "o", "c", "k">>, value |-> 300],
    [key |-> <<"p", "r", "i", "n", "t">>, value |-> 144],
    [key |-> <<"s", "c", "r", "e", "e", "n", "l", "o", "c", "k">>, value |-> 145],
    [key |-> <<"p", "a", "u", "s", "e">>, value |-> 19],
    [key |-> <<"a">>, value |-> 97],
    [key |-> <<"b">>, value |-> 98],
    [key |-> <<"c">>, value |-> 99],
    [key |-> <<"d">>, value |-> 100],
    [key |-> <<"e">>, value |-> 101],
    [key |-> <<"f">>, value |-> 102],
    [key |-> <<"g">>, value |-> 103],
    [key |-> <<"h">>, value |-> 104],
    [key |-> <<"i">>, value |-> 105],
    [key |-> <<"j">>, value |-> 106],
    [key |-> <<"k">>, value |-> 107],
    [key |-> <<"l">>, value |-> 108],
    [key |-> <<"m">>, value |-> 109],
    [key |-> <<"n">>, value |-> 110],
    [key |-> <<"o">>, value |-> 111],
    [key |-> <<"p">>, value |-> 112],
    [key |-> <<"q">>, value |-> 113],
    [key |-> <<"r">>, value |-> 114],
    [key |-> <<"s">>, value |-> 115],
    [key |-> <<"t">>, value |-> 116],
    [key |-> <<"u">>, value |-> 117],
    [key |-> <<"v">>, value |-> 118],
    [key |-> <<"w">>, value |-> 119],
    [key |-> <<"x">>, value |-> 120],
    [key |-> <<"y">>, value |-> 121],
    [key |-> <<"z">>, value |-> 122],
    [key |-> <<"0">>, value |-> 48],
    [key |-> <<"1">>, value |-> 49],
    [key |-> <<"2">>, value |-> 50],
    [key |-> <<"3">>, value |-> 51],
    [key |-> <<"4">>, value |-> 52],
    [key |-> <<"5">>, value |-> 53],
    [key |-> <<"6">>, value |-> 54],
    [key |-> <<"7">>, value |-> 55],
    [key |-> <<"8">>, value |-> 56],
    [key |-> <<"9">>, value |-> 57],
    [key |-> <<"n", "u", "m", "p", "a", "d", "0">>, value |-> 256],
    [key |-> <<"n", "u", "m", "p", "a", "d", "1">>, value |-> 257],
    [key |-> <<"n", "u", "m", "p", "a", "d", "2">>, value |-> 258],
    [key |-> <<"n", "u", "m", "p", "a", "d", "3">>, value |-> 259],
    [key |-> <<"n", "u", "m", "p", "a", "d", "4">>, value |-> 260],
    [key |-> <<"n", "u", "m", "p", "a", "d", "5">>, value |-> 261],
    [key |-> <<"n", "u", "m", "p", "a", "d", "6">>, value |-> 262],
    [key |-> <<"n", "u", "m", "p", "a", "d", "7">>, value |-> 263],
    [key |-> <<"n", "u", "m", "p", "a", "d", "8">>, value |-> 264],
    [key |-> <<"n", "u", "m", "p", "a", "d", "9">>, value |-> 265],
    [key |-> <<"n", "u", "m", "p", "a", "d", "d", "e", "c", "i", "m", "a", "l">>, value |-> 266],
    [key |-> <<"n", "u", "m", "p", "a", "d", "d", "i", "v", "i", "d", "e">>, value |-> 267],
    [key |-> <<"n", "u", "m", "p", "a", "d", "m", "u", "l">>, value |-> 268],
    [key |-> <<"n", "u", "m", "p", "a", "d", "s", "u", "b", "t", "r", "a", "c", "t">>, value |-> 269],
    [key |-> <<"n", "u", "m", "p", "a", "d", "a", "d", "d">>, value |-> 270],
    [key |-> <<"n", "u", "m", "p", "a", "d", "e", "n", "t", "e", "r">>, value |-> 271],
    [key |-> <<"f", "1">>, value |-> 282],
    [key |-> <<"f", "2">>, value |-> 283],
    [key |-> <<"f", "3">>, value |-> 284],
    [key |-> <<"f", "4">>, value |-> 285],
    [key |-> <<"f", "5">>, value |-> 286],
    [key |-> <<"f", "6">>, value |-> 287],
    [key |-> <<"f", "7">>, value |-> 288],
    [key |-> <<"f", "8">>, value |-> 289],
    [key |-> <<"f", "9">>, value |-> 290],
    [key |-> <<"f", "1", "0">>, value |-> 291],
    [key |-> <<"f", "1", "1">>, value |-> 292],
    [key |-> <<"f", "1", "2">>, value |-> 293],
    [key |-> <<"f", "1", "3">>, value |-> 294],
    [key |-> <<"f", "1", "4">>, value |-> 295],
    [key |-> <<"f", "1", "5">>, value |-> 296],
    [key |-> <<"(">>, value |-> 40],
    [key |-> <<")">>, value |-> 41],
    [key |-> <<"[">>, value |-> 91],
    [key |-> <<"]">>, value |-> 93],
    [key |-> <<"{">>, value |-> 123],
    [key |-> <<"}">>, value |-> 125],
    [key |-> <<":">>, value |-> 58],
    [key |-> <<";">>, value |-> 59],
    [key |-> <<"=">>, value |-> 61],
    [key |-> <<"+">>, value |-> 43],
    [key |-> <<"-">>, value |-> 45],
    [key |-> <<"_">>, value |-> 95],
    [key |-> <<"/">>, value |-> 47],
    [key |-> <<"*">>, value |-> 42],
    [key |-> <<"?">>, value |-> 47],
    [key |-> <<"`">>, value |-> 96],
    [key |-> <<"~">>, value |-> 126],
    [key |-> <<"´">>, value |-> 180],
    [key |-> <<"¦">>, value |-> 166],
    [key |-> <<"\\">>, value |-> 92],
    [key |-> <<"|">>, value |-> 124],
    [key |-> <<"\"">>, value |-> 34],
    [key |-> <<"'">>, value |-> 39],
    [key |-> <<",">>, value |-> 44],
    [key |-> <<".">>, value |-> 46],
    [key |-> <<"<">>, value |-> 60],
    [key |-> <<">">>, value |-> 62],
    [key |-> <<"@">>, value |-> 64],
    [key |-> <<"!">>, value |-> 33],
    [key |-> <<"#">>, value |-> 35],
    [key |-> <<"$">>, value |-> 36],
    [key |-> <<"%">>, value |-> 37],
    [key |-> <<"^">>, value |-> 94],
    [key |-> <<"&">>, value |-> 38],
    [key |-> <<"¬">>, value |-> 172],
    [key |-> <<"¨">>, value |-> 168],
    [key |-> <<"U+2026">>, value |-> 8230],
    [key |-> <<"ù">>, value |-> 249],
    [key |-> <<"à">>, value |-> 224],
    [key |-> <<"é">>, value |-> 233],
    [key |-> <<"è">>, value |-> 232],
    [key |-> <<"p", "l", "u", "s">>, value |-> 43],
    [key |-> <<"m", "i", "n", "u", "s">>, value |-> 45],
    [key |-> <<"t", "i", "m", "e", "s">>, value |-> 42],
    [key |-> <<"d", "i", "v", "i", "d", "e">>, value |-> 47],
    [key |-> <<"l", "s", "h", "i", "f", "t">>, value |-> 304],
    [key |-> <<"c", "t", "r", "l">>, value |-> 305],
    [key |-> <<"e", "s", "c">>, value |-> 27],
    [key |-> <<"b", "k", "s", "p">>, value |-> 8],
    [key |-> <<"r", "e", "t", "u", "r", "n">>, value |-> 13],
    [key |-> <<"s", "p", "a", "c", "e">>, value |-> 32],
    [key |-> <<"p", "g", "u", "p">>, value |-> 280],
    [key |-> <<"p", "g", "d", "n">>, value |-> 281],
    [key |-> <<"i", "n", "s">>, value |-> 277],
    [key |-> <<"d", "e", "l">>, value |-> 127]
  >>

KEYCODE_GENERICS ==
  <<
    [key |-> <<"n", "u", "m", "p", "a", "d", "0">>, value |-> <<"0">>],
    [key |-> <<"n", "u", "m", "p", "a", "d", "1">>, value |-> <<"1">>],
    [key |-> <<"n", "u", "m", "p", "a", "d", "2">>, value |-> <<"2">>],
    [key |-> <<"n", "u", "m", "p", "a", "d", "3">>, value |-> <<"3">>],
    [key |-> <<"n", "u", "m", "p", "a", "d", "4">>, value |-> <<"4">>],
    [key |-> <<"n", "u", "m", "p", "a", "d", "5">>, value |-> <<"5">>],
    [key |-> <<"n", "u", "m", "p", "a", "d", "6">>, value |-> <<"6">>],
    [key |-> <<"n", "u", "m", "p", "a", "d", "7">>, value |-> <<"7">>],
    [key |-> <<"n", "u", "m", "p", "a", "d", "8">>, value |-> <<"8">>],
    [key |-> <<"n", "u", "m", "p", "a", "d", "9">>, value |-> <<"9">>],
    [key |-> <<"n", "u", "m", "p", "a", "d", "d", "e", "c", "i", "m", "a", "l">>, value |-> <<".">>],
    [key |-> <<"n", "u", "m", "p", "a", "d", "d", "i", "v", "i", "d", "e">>, value |-> <<"/">>],
    [key |-> <<"n", "u", "m", "p", "a", "d", "m", "u", "l">>, value |-> <<"*">>],
    [key |-> <<"n", "u", "m", "p", "a", "d", "s", "u", "b", "t", "r", "a", "c", "t">>, value |-> <<"-">>],
    [key |-> <<"n", "u", "m", "p", "a", "d", "a", "d", "d">>, value |-> <<"+">>],
    [key |-> <<"n", "u", "m", "p", "a", "d", "e", "n", "t", "e", "r">>, value |-> <<"e", "n", "t", "e", "r">>]
  >>

MODIFIERS ==
  <<
    [key |-> <<"s", "h", "i", "f", "t">>, value |-> 304],
    [key |-> <<"c", "t", "r", "l">>, value |-> 305],
    [key |-> <<"a", "l", "t">>, value |-> 308],
    [key |-> <<"o", "p", "t">>, value |-> 308],
    [key |-> <<"m", "e", "t", "a">>, value |-> 309],
    [key |-> <<"s", "u", "p", "e", "r">>, value |-> 309]
  >>

\* key in d, and d[key], for a dict given as the sequence of its entries
dict_has(d, key) == \E i \in 1..Len(d) : d[i].key = key
dict_get(d, key) == d[CHOOSE i \in 1..Len(d) : d[i].key = key].value

\* A keystroke_expression: a str, or a list of str
ExprStr(s) == [type |-> "str", str |-> s, list |-> <<>>]
ExprList(l) == [type |-> "list", str |-> <<>>, list |-> l]

\* sorted(ints)
RECURSIVE insert_sorted(_, _)
insert_sorted(l, x) ==
    IF l = <<>> THEN <<x>>
    ELSE IF x < l[1] THEN <<x>> \o l
    ELSE <<l[1]>> \o insert_sorted(Tail(l), x)

RECURSIVE sorted(_)
sorted(l) == IF l = <<>> THEN <<>> ELSE insert_sorted(sorted(Tail(l)), l[1])

\* "except handler": the exception exc is caught when it is the handler's
\* class (IndexError and KeyError are both LookupErrors, neither one the
\* other's subclass).
is_caught(exc, handler) == exc = handler

\* Lines 169-172: KEYCODES[part] for each part, in order; a part that is no
\* key of KEYCODES raises KeyError, and the handler is for IndexError.
lookup_parts(parts) ==
    IF \E i \in 1..Len(parts) : ~dict_has(KEYCODES, parts[i])
    THEN IF is_caught("KeyError", "IndexError") THEN Raise("ValueError") ELSE Raise("KeyError")
    ELSE RetList([i \in 1..Len(parts) |-> dict_get(KEYCODES, parts[i])])

\* Lines 166-167
generic_last(parts, as_generic) ==
    IF as_generic /\ dict_has(KEYCODE_GENERICS, parts[Len(parts)])
    THEN [parts EXCEPT ![Len(parts)] = dict_get(KEYCODE_GENERICS, parts[Len(parts)])]
    ELSE parts

\* Lines 169-174, once the looked-up codes or the exception are known
extend_and_sort(key_ints, looked_up) ==
    IF looked_up.kind = "list"
    THEN RetList(sorted(key_ints \o looked_up.val))
    ELSE looked_up

\* Lines 161-174, for the list of key strings
parse_key_strs(key_ints, key_strs, as_generic) ==
    IF key_strs = <<>>
    THEN RetList(key_ints)
    ELSE extend_and_sort(
             key_ints,
             lookup_parts(generic_last([i \in 1..Len(key_strs) |-> strip(casefold(key_strs[i]))],
                                       as_generic)))

\* parse_keystroke_expression (lines 128-174)
parse_keystroke_expression(keystroke_expression, keycode, as_generic) ==
    IF keystroke_expression.type = "str" /\ strip(keystroke_expression.str) = <<>>
    THEN RetList(IF keycode # 0 THEN <<keycode>> ELSE <<>>)
    ELSE parse_key_strs(IF keycode # 0 THEN <<keycode>> ELSE <<>>,
                        IF keystroke_expression.type = "str"
                        THEN split(strip(keystroke_expression.str), "+")
                        ELSE keystroke_expression.list,
                        as_generic)

(***************************************************************************)
(* The yes/no dialog: src/kivygw/app_support/dialogs.py.                   *)
(*                                                                         *)
(* YesNoDialog is a Singleton: every ask_user_yes_no works on the one      *)
(* instance.  The instance is a record of the attributes the code assigns; *)
(* "attributes" is the set of names an attribute lookup on it finds (the   *)
(* class attributes of GWDialog and what __init__ and the setters assign). *)
(* A callback is <<name>>, no callback is None.  "trace" lists what the    *)
(* latest button handler did, in order: dismissing the popup and calling   *)
(* callbacks with their arguments.                                         *)
(***************************************************************************)
Callable(name) == <<name>>

\* if self._user_callback_ok:   (a function is truthy, None is not)
callback_truthy(callback) == callback # None

GWDialog_class_attributes ==
    {"_popup", "_payload", "_user_callback_ok", "_user_callback_cancel", "_title"}

\* YesNoDialog(): GWDialog.__init__, then the payload label
YesNoDialog_init ==
    [attributes |-> GWDialog_class_attributes \cup {"_inner_box", "_controls_box", "_outer_box"},
     _user_callback_ok |-> None,
     _user_callback_cancel |-> None,
     _buttons |-> <<>>,
     on_release |-> <<>>,
     _title |-> "Question",
     text |-> "",
     popup_open |-> FALSE,
     trace |-> <<>>]

set_user_callbacks(dlg, user_on_ok, user_on_cancel) ==
    [dlg EXCEPT !._user_callback_ok = user_on_ok,
                !._user_callback_cancel = user_on_cancel]

\* the handler the buttons setter binds to the button named button_name
bound_handler(button_name) ==
    IF button_name = "ok" THEN "on_ok"
    ELSE IF button_name = "cancel" THEN "on_cancel"
    ELSE "Button.on_release"

\* dlg.buttons = value; value is the dict as a sequence of [name, text] items
set_buttons(dlg, value) ==
    [dlg EXCEPT !._buttons = value,
                !.attributes = @ \cup {"_buttons"},
                !.on_release = [i \in 1..Len(value) |-> bound_handler(value[i].name)]]

set_title(dlg, value) == [dlg EXCEPT !._title = value]

\* GWDialog.open via YesNoDialog.ask
ask(dlg, msg) == [dlg EXCEPT !.text = msg, !.popup_open = TRUE]

\* self._popup.dismiss()
dismiss(dlg) ==
    [dlg EXCEPT !.popup_open = FALSE,
                !.trace = Append(@, [do |-> "dismiss", fn |-> None, args |-> <<>>])]

\* callback(*args)
invoke(dlg, callback, args) ==
    [dlg EXCEPT !.trace = Append(@, [do |-> "call", fn |-> callback, args |-> args])]

\* What a handler leaves: the dialog and the handler's outcome.
Handled(dlg, outcome) == [dlg |-> dlg, ret |-> outcome]

\* YesNoDialog.on_ok.  The argument self._result is looked up before the
\* call; no statement of the repository assigns _result.
on_ok_dismissed(dlg) ==
    IF callback_truthy(dlg._user_callback_ok)
    THEN IF "_result" \in dlg.attributes
         THEN Handled(invoke(dlg, dlg._user_callback_ok, <<dlg._result>>), RetNone)
         ELSE Handled(dlg, Raise("AttributeError"))
    ELSE Handled(dlg, RetNone)

on_ok(dlg) == on_ok_dismissed(dismiss(dlg))

\* YesNoDialog.on_cancel
on_cancel_dismissed(dlg) ==
    IF callback_truthy(dlg._user_callback_cancel)
    THEN Handled(invoke(dlg, dlg._user_callback_cancel, <<>>), RetNone)
    ELSE IF callback_truthy(dlg._user_callback_ok)
    THEN Handled(invoke(dlg, dlg._user_callback_ok, <<None>>), RetNone)
    ELSE Handled(dlg, RetNone)

on_cancel(dlg) == on_cancel_dismissed(dismiss(dlg))

\* ask_user_yes_no(msg, on_yes, on_no, yes, no, title) on the one instance
ask_user_yes_no(dlg, msg, on_yes, on_no, yes, no, title) ==
    ask(set_title(set_buttons(set_user_callbacks(dlg, on_yes, on_no),
                              <<[name |-> "ok", text |-> yes],
                                [name |-> "cancel", text |-> no]>>),
                  title),
        msg)

(***************************************************************************)
(* The inactivity timeout: src/kivygw/app_support/inactivity.py.           *)
(*                                                                         *)
(* "app" is the Kivy app the function enhances; "kivy" is what the code    *)
(* uses of Kivy: the Clock (its time in seconds and every event scheduled  *)
(* with schedule_once, in order of scheduling) and the handlers bound to   *)
(* the Window.  A ClockEvent is its position in kivy.events; it is pending *)
(* until it is cancelled or fired, and the Clock calls the callback of a   *)
(* pending event in the first frame at or after its timeout.  The timeout  *)
(* handler does nothing to the app.                                        *)
(***************************************************************************)
\* app.reset_event = None
NoEvent == 0

App_init == [attributes |-> {}, inactivity_minutes |-> 0, reset_event |-> NoEvent]

Kivy_init == [time |-> 0, events |-> <<>>, on_touch_down |-> <<>>, on_key_down |-> <<>>]

\* Clock.schedule_once(callback, timeout); the event returned is the last one
schedule_once(kv, callback, timeout) ==
    [kv EXCEPT !.events = Append(@, [callback |-> callback, at |-> kv.time,
                                     timeout |-> timeout, state |-> "pending",
                                     fired_at |-> 0])]

\* event.cancel(): unschedules a pending event, nothing otherwise
ClockEvent_cancel(kv, event) ==
    IF kv.events[event].state = "pending"
    THEN [kv EXCEPT !.events[event].state = "cancelled"]
    ELSE kv

\* if app.reset_event:   (a ClockEvent is truthy, None is not)
event_truthy(event) == event # NoEvent

\* A cancel_timeout that leaves the scheduled event alone.
cancel_timeout_forgetful(a, kv) == kv

\* cancel_timeout(*args)
cancel_timeout(a, kv) ==
    IF event_truthy(a.reset_event) THEN ClockEvent_cancel(kv, a.reset_event) ELSE kv

\* What a call leaves of the app and of Kivy.
World(a, kv) == [app |-> a, kivy |-> kv]

\* app.reset_event = Clock.schedule_once(timeout_handler, app.inactivity_minutes * 60)
schedule_timeout(a, kv) ==
    World([a EXCEPT !.reset_event = Len(kv.events) + 1],
          schedule_once(kv, "timeout_handler", a.inactivity_minutes * 60))

\* reset_timeout(*args)
reset_timeout(a, kv) == schedule_timeout(a, cancel_timeout(a, kv))

\* Window.bind(on_touch_down=reset_timeout); Window.bind(on_key_down=reset_timeout)
Window_bind(kv) ==
    [kv EXCEPT !.on_touch_down = Append(@, "reset_timeout"),
               !.on_key_down = Append(@, "reset_timeout")]

\* add_inactivity_timeout(app, timeout_handler, inactivity_minutes)
add_inactivity_timeout(a, kv, inactivity_minutes) ==
    LET enhanced == [a EXCEPT !.inactivity_minutes = inactivity_minutes,
                              !.reset_event = NoEvent,
                              !.attributes = @ \cup {"inactivity_minutes", "reset_event",
                                                     "cancel_timeout", "reset_timeout"}]
        started == reset_timeout(enhanced, kv)
    IN World(started.app, Window_bind(started.kivy))

\* Every handler bound to a Window event runs, each on what the one before left.
RECURSIVE dispatch(_, _, _)
dispatch(handlers, a, kv) ==
    IF handlers = <<>> THEN World(a, kv)
    ELSE LET w == reset_timeout(a, kv)
         IN dispatch(Tail(handlers), w.app, w.kivy)

\* A frame of the Clock dt seconds later: the pending events whose timeout
\* has passed are fired.
is_due(event, time) == event.state = "pending" /\ event.at + event.timeout <= time

Clock_tick(kv, dt) ==
    [kv EXCEPT !.time = @ + dt,
               !.events = [i \in 1..Len(@) |->
                             IF is_due(@[i], kv.time + dt)
                             THEN [@[i] EXCEPT !.state = "fired", !.fired_at = kv.time + dt]
                             ELSE @[i]]]

(***************************************************************************)
(* The multi-keystroke listener: src/kivygw/widgets/hotkey.py.             *)
(*                                                                         *)
(* "attributes" is the set of names an attribute lookup on the listener    *)
(* finds: what __init__ assigns and do_key_press, which the listener's     *)
(* owner sets.  A keycode is the pair <<code, name>> the keyboard          *)
(* delivers, modifiers the list of modifier names.  "invoked" lists the    *)
(* do_key_press calls of the latest handler, "delivered" the kinds of the  *)
(* events the keyboard has delivered so far.                               *)
(***************************************************************************)
RetBool(b) == [kind |-> "bool", val |-> b]

\* MultiKeystrokeListener(**kwargs), do_key_press set
MultiKeystrokeListener_init ==
    [attributes |-> {"_keyboard", "do_key_press"},
     latest_down |-> None,
     invoked |-> <<>>,
     delivered |-> <<>>]

\* What a handler leaves: the listener and the handler's outcome.
Listened(lsn, outcome) == [listener |-> lsn, ret |-> outcome]

\* _on_keyboard_down(keyboard, keycode, text, modifiers)
on_keyboard_down(lsn, keycode, modifiers) ==
    Listened([lsn EXCEPT !.latest_down = <<keycode, modifiers>>,
                         !.attributes = @ \cup {"latest_down"}],
             RetBool(TRUE))

\* if self.latest_down:   (a pair is truthy, None is not)
latest_down_truthy(latest_down) == latest_down # None

\* self.do_key_press(keycode, modifiers)
do_key_press(lsn, keycode, modifiers) ==
    [lsn EXCEPT !.invoked = Append(@, [keycode |-> keycode, modifiers |-> modifiers])]

\* _on_keyboard_up(keyboard, keycode)
on_keyboard_up(lsn, keycode) ==
    IF "latest_down" \notin lsn.attributes
    THEN Listened(lsn, Raise("AttributeError"))
    ELSE IF latest_down_truthy(lsn.latest_down)
    THEN Listened([do_key_press(lsn, lsn.latest_down[1], lsn.latest_down[2])
                     EXCEPT !.latest_down = None],
                  RetBool(TRUE))
    ELSE Listened(lsn, RetBool(TRUE))

(***************************************************************************)
(* The camera inventory: src/kivygw/utils/cameras.py.                      *)
(*                                                                         *)
(* CameraInventory is a Singleton; "exists" tells whether the instance has *)
(* been constructed.  _inventory is the dict as a function from the ports  *)
(* checked so far to a CameraInfo or None; _active_camera_port is PyNone   *)
(* or PyInt(port).  Whether a camera opens (CameraInfo.test_open) is up to *)
(* the hardware: each check is told the outcome.                           *)
(***************************************************************************)
MAX_PORT_NUMBER == 3

CameraInfo(port, width, height) == <<"CameraInfo", port, width, height>>

\* Singleton, before the first CameraInventory()
CameraInventory_none == [exists |-> FALSE, _inventory |-> <<>>, _active_camera_port |-> PyNone]

\* __init__, before find_cameras
CameraInventory_init == [exists |-> TRUE, _inventory |-> <<>>, _active_camera_port |-> PyNone]

\* What a call leaves: the inventory and the call's outcome.
Kept(inv, outcome) == [inventory |-> inv, ret |-> outcome]

\* d[key] = value on a dict held as a function
dict_set(d, key, value) ==
    [k \in DOMAIN d \cup {key} |-> IF k = key THEN value ELSE d[k]]

\* check_camera(port, width, height), the camera opening or not
check_camera(inv, port, width, height, opens) ==
    IF port \in DOMAIN inv._inventory
    THEN Kept(inv, RetBool(inv._inventory[port] # None))
    ELSE IF opens
    THEN Kept([inv EXCEPT !._inventory = dict_set(@, port, CameraInfo(port, width, height)),
                          !._active_camera_port =
                              IF @ = PyNone THEN PyInt(port) ELSE @],
              RetBool(TRUE))
    ELSE Kept([inv EXCEPT !._inventory = dict_set(@, port, None)], RetBool(FALSE))

RetInt(k) == [kind |-> "int", val |-> k]

\* return self._active_camera_port
returned_port(port) == IF port = PyNone THEN RetNone ELSE RetInt(port.int)

\* return self._inventory[self._active_camera_port]
returned_camera(cam) == IF cam = None THEN RetNone ELSE [kind |-> "CameraInfo", val |-> cam]

\* the property active_camera_port, read: with no active port and a
\* non-empty inventory it evaluates None.keys()
get_active_camera_port(inv) ==
    IF inv._active_camera_port = PyNone /\ Cardinality(DOMAIN inv._inventory) > 0
    THEN Kept(inv, Raise("AttributeError"))
    ELSE Kept(inv, returned_port(inv._active_camera_port))

\* the property active_camera_port, assigned
set_active_camera_port(inv, value) ==
    IF value \notin DOMAIN inv._inventory
    THEN Kept(inv, Raise("IndexError"))
    ELSE Kept([inv EXCEPT !._active_camera_port = PyInt(value)], RetNone)

\* the property active_camera
active_camera(inv) ==
    IF \/ inv._active_camera_port = PyNone
       \/ inv._active_camera_port.int \notin DOMAIN inv._inventory
    THEN Kept([inv EXCEPT !._active_camera_port = PyNone], RetNone)
    ELSE Kept(inv, returned_camera(inv._inventory[inv._active_camera_port.int]))

\* for port_number in range(max_port_number + 1): self.check_camera(port_number)
RECURSIVE find_cameras_loop(_, _, _, _)
find_cameras_loop(inv, port_number, max_port_number, opening) ==
    IF port_number > max_port_number THEN inv
    ELSE find_cameras_loop(
             check_camera(inv, port_number, 0, 0, port_number \in opening).inventory,
             port_number + 1, max_port_number, opening)

\* find_cameras(max_port_number): the loop, then the debug line, whose
\* message is built from __str__, which reads active_camera_port (line 85)
find_cameras(inv, max_port_number, opening) ==
    LET found == find_cameras_loop(inv, 0, max_port_number, opening)
        shown == get_active_camera_port(found)
    IN IF shown.ret.kind = "AttributeError" THEN Kept(found, shown.ret)
       ELSE Kept(found, RetNone)

\* CameraInventory(): Singleton.__call__ keeps the instance only if
\* __init__ returns
CameraInventory_call(inv, opening) ==
    IF inv.exists THEN Kept(inv, RetNone)
    ELSE LET made == find_cameras(CameraInventory_init, MAX_PORT_NUMBER, opening)
         IN IF made.ret.kind = "AttributeError" THEN Kept(inv, made.ret)
            ELSE Kept(made.inventory, RetNone)

(***************************************************************************)
(* The image window of the crop tool: src/kivygw/widgets/crop_tool.py.     *)
(*                                                                         *)
(* A zoom factor is counted in tenths: 1.0 is 10, ZOOM_INCREMENT (0.1) is  *)
(* 1.  zoom() only adds factors, compares with 1 and tests for equality,   *)
(* which the count of tenths does exactly.  "canvas" is the zoom factor    *)
(* the canvas was last painted with (0 while nothing is painted), and      *)
(* "repaints" the number of repaints the latest call triggered.            *)
(***************************************************************************)
ZOOM_INCREMENT == 1
One == 10

\* ImageWindow.__init__
ImageWindow_init ==
    [zoom_factor |-> One,
     previous_zoom_factor |-> 0,
     starting_pos |-> <<0, 0>>,
     move_by |-> <<0, 0>>,
     accumulated_move_by |-> <<0, 0>>,
     proposed_crop_size |-> <<0, 0>>,
     canvas |-> 0,
     repaints |-> 0]

\* repaint(): the canvas is painted with the current crop, i.e. zoom factor
repaint(w) == [w EXCEPT !.canvas = w.zoom_factor, !.repaints = @ + 1]

\* A zoom factor left as it is.
at_least_one_unchecked(zoom_factor) == zoom_factor

\* if self.zoom_factor < 1: self.zoom_factor = 1.0
at_least_one(zoom_factor) == IF zoom_factor < One THEN One ELSE zoom_factor

\* if self.previous_zoom_factor != self.zoom_factor: ...
repaint_if_changed(w) ==
    IF w.previous_zoom_factor # w.zoom_factor
    THEN repaint([w EXCEPT !.previous_zoom_factor = w.zoom_factor])
    ELSE w

\* zoom(factor)
zoom(w, factor) ==
    repaint_if_changed(
        [w EXCEPT !.zoom_factor = at_least_one(IF factor = 0 THEN One ELSE @ + factor)])

\* reset_zooming()
reset_zooming(w) ==
    [w EXCEPT !.zoom_factor = One,
              !.move_by = <<0, 0>>,
              !.previous_zoom_factor = 0,
              !.starting_pos = None,
              !.accumulated_move_by = <<0, 0>>,
              !.proposed_crop_size = <<0, 0>>]

(***************************************************************************)
(* State: the call in progress and its outcome.  A caller is idle, makes   *)
(* one call (the call and its outcome are recorded), and returns to idle.  *)
(* The functions of the utilities only compute; the calls on the widgets   *)
(* and singletons also change the object they work on: the YesNoDialog,    *)
(* the app with Kivy's Clock and Window, the MultiKeystrokeListener, the   *)
(* CameraInventory and the ImageWindow.                                    *)
(***************************************************************************)
VARIABLES call, ret, dialog, app, kivy, listener, inventory, window
vars == <<call, ret, dialog, app, kivy, listener, inventory, window>>

\* The objects the calls work on, and the ones each group of calls leaves alone.
objects == <<dialog, app, kivy, listener, inventory, window>>
but_dialog == <<app, kivy, listener, inventory, window>>
but_app == <<dialog, listener, inventory, window>>
but_listener == <<dialog, app, kivy, inventory, window>>
but_inventory == <<dialog, app, kivy, listener, window>>
but_window == <<dialog, app, kivy, listener, inventory>>

Idle == [op |-> "idle"]
NoRet == [kind |-> "idle", val |-> None]

Init ==
    /\ call = Idle
    /\ ret = NoRet
    /\ dialog = YesNoDialog_init
    /\ app = App_init
    /\ kivy = Kivy_init
    /\ listener = MultiKeystrokeListener_init
    /\ inventory = CameraInventory_none
    /\ window = ImageWindow_init

(***************************************************************************)
(* Inputs of by_value.                                                     *)
(***************************************************************************)
\* The channel values of the query grid: GridN + 1 evenly spread levels.
GridN == 5
GridLevels == {(255 * k) \div GridN : k \in 0..GridN}
Grid == {<<r, g, b>> : r \in GridLevels, g \in GridLevels, b \in GridLevels}

\* The RGB triples of the members themselves.
MemberRgbs == {value0(e) : e \in Members}

\* Points halfway between two members defined one after the other (when the
\* halfway point has integer channels): equally far from both.
Midpoints ==
    {<<(value0(e)[1] + value0(e + 1)[1]) \div 2,
       (value0(e)[2] + value0(e + 1)[2]) \div 2,
       (value0(e)[3] + value0(e + 1)[3]) \div 2>> :
        e \in {m \in 1..(Len(NamedColor) - 1) :
                 \A c \in 1..3 : (value0(m)[c] - value0(m + 1)[c]) % 2 = 0}}

\* The triples used in tests/test_colors.py lines 13-21.
TestPoints == {<<240, 255, 255>>, <<241, 254, 253>>, <<241, 254, 250>>, <<156, 102, 31>>}

\* Alpha values given as a fourth channel.
AlphaChannels == {0, 128}

Triples == Grid \cup MemberRgbs \cup Midpoints \cup TestPoints
\* The colours also asked for with an alpha channel and as positional ints.
Scattered == Midpoints \cup TestPoints
Quadruples == {q \o <<a>> : q \in Scattered, a \in AlphaChannels}
\* Too few channels for a colour.
Short == {SubSeq(q, 1, n) : q \in TestPoints, n \in 1..2}

\* The record of a by_value call.
ByValueCall(value, args, only_standard) ==
    [op |-> "by_value", value |-> value, args |-> args, only_standard |-> only_standard]

\* NamedColor.by_value(rgb) and NamedColor.by_value(rgb, only_standard=...)
ByValueTriple ==
    /\ call = Idle
    /\ \E q \in Triples, only_standard \in BOOLEAN :
        /\ call' = ByValueCall(PyTuple(q), <<>>, only_standard)
        /\ ret' = by_value(PyTuple(q), <<>>, only_standard)
    /\ UNCHANGED objects

\* NamedColor.by_value(rgba), and tuples too short to be a colour
ByValueTuple ==
    /\ call = Idle
    /\ \E q \in Quadruples \cup Short :
        /\ call' = ByValueCall(PyTuple(q), <<>>, FALSE)
        /\ ret' = by_value(PyTuple(q), <<>>, FALSE)
    /\ UNCHANGED objects

\* NamedColor.by_value(r, g, b) and NamedColor.by_value(*rgb, only_standard=...)
ByValueInts ==
    /\ call = Idle
    /\ \E q \in Scattered, only_standard \in BOOLEAN :
        /\ call' = ByValueCall(PyInt(q[1]), Tail(q), only_standard)
        /\ ret' = by_value(PyInt(q[1]), Tail(q), only_standard)
    /\ UNCHANGED objects

\* NamedColor.by_value(r, g, b, a), and too few positional ints
ByValueMoreInts ==
    /\ call = Idle
    /\ \E q \in Quadruples \cup Short :
        /\ call' = ByValueCall(PyInt(q[1]), Tail(q), FALSE)
        /\ ret' = by_value(PyInt(q[1]), Tail(q), FALSE)
    /\ UNCHANGED objects

\* NamedColor.by_value(NamedColor.X)
ByValueMember ==
    /\ call = Idle
    /\ \E e \in Members, only_standard \in BOOLEAN :
        /\ call' = ByValueCall(PyMember(e), <<>>, only_standard)
        /\ ret' = by_value(PyMember(e), <<>>, only_standard)
    /\ UNCHANGED objects

\* NamedColor.by_value(None)
ByValueNone ==
    /\ call = Idle
    /\ call' = ByValueCall(PyNone, <<>>, FALSE)
    /\ ret' = by_value(PyNone, <<>>, FALSE)
    /\ UNCHANGED objects

(***************************************************************************)
(* Inputs of the tuple codec.                                              *)
(***************************************************************************)
\* Channel values: ints 0, 1, 99, 255 and floats 0.5, 0.999 (0 and 1 are
\* also the floats 0.0 and 1.0).
Pool == {IntNum(0), IntNum(1), <<1, 2>>, <<999, 1000>>, IntNum(99), IntNum(255)}
\* Channel values of the tuples of a wrong length.
ArityPool == {IntNum(0), <<1, 2>>, IntNum(99)}
\* The longest tuple passed.
MaxLen == 5
ColorTuples == [1..3 -> Pool] \cup [1..4 -> Pool]
OtherTuples == UNION {[1..n -> ArityPool] : n \in (0..MaxLen) \ {3, 4}}
Tuples == ColorTuples \cup OtherTuples
\* alpha arguments: None, 0.0, 0.5, 1.0 (or 1), and the ints 128 and 255.
Alphas == {None, IntNum(0), <<1, 2>>, IntNum(1), IntNum(128), IntNum(255)}

\* float_tuple(t, alpha=a)
CallFloatTuple ==
    /\ call = Idle
    /\ \E t \in Tuples, a \in Alphas :
        /\ call' = [op |-> "float_tuple", arg |-> t, alpha |-> a, origin |-> None]
        /\ ret' = float_tuple(t, a)
    /\ UNCHANGED objects

\* int_tuple(t, alpha=a)
CallIntTuple ==
    /\ call = Idle
    /\ \E t \in Tuples, a \in Alphas :
        /\ call' = [op |-> "int_tuple", arg |-> t, alpha |-> a, origin |-> None]
        /\ ret' = int_tuple(t, a)
    /\ UNCHANGED objects

\* ft = float_tuple(t); it = int_tuple(ft)   (tests/test_colors.py lines 76-82)
\* The second call, on the tuple the first returned; origin remembers t.
CallIntTupleOfResult ==
    /\ call.op = "float_tuple"
    /\ call.alpha = None
    /\ ret.kind = "tuple"
    /\ call' = [op |-> "int_tuple", arg |-> ret.val, alpha |-> None, origin |-> call.arg]
    /\ ret' = int_tuple(ret.val, None)
    /\ UNCHANGED objects

(***************************************************************************)
(* Inputs of color_parse and of by_value with a str.                       *)
(***************************************************************************)
\* Characters of the generated strings: a letter that is no hex digit, a hex
\* letter, a decimal digit, the two marks color_parse keeps, and a blank.
Alphabet == {"z", "f", "1", ",", "#", " "}
\* The longest generated string.
MaxStr == 4
Generated == UNION {[1..k -> Alphabet] : k \in 0..MaxStr}
\* Strings of the docstrings and tests, and one of each form with its near misses.
Curated ==
    {<<"n", "o", "s", "u", "c", "h">>, <<"a", "z", "u", "r", "e">>, <<" ", "A", "z", "u", "r", "e", " ">>, <<"R", "E", "D">>, <<"#", "F", "0", "F", "F", "F", "F">>, <<"F", "0", "F", "F", "F", "F">>, <<"#", "f", "f", "0", "0", "8", "8">>,
     <<"#", "f", "f", "0", "0", "8", "8", "4", "0">>, <<"f", "f", "0", "0", "8", "8", "4">>, <<"f", "f", "f", "f", "f">>, <<"d", "e", "c", "a", "d", "e">>, <<"1", ",", "2", ",", "3">>, <<"(", "2", "5", "5", ",", "0", ",", "1", "3", "6", ")">>,
     <<"(", "2", "5", "5", ",", "0", ",", "1", "3", "6", ",", "4", "8", ")">>, <<"1", ",", "2">>, <<"x", ",", "y", ",", "z">>, <<"3", "0", "0", ",", "1", ",", "2">>, <<"1", "2", ",", ",", "3">>}
ParseStrs == Generated \cup Curated
\* expr values that are not a str: None, the empty and a non-empty tuple, a
\* list, a member.
OtherExprs ==
    {PyNone, PyTuple(<<>>), PyTuple(<<1, 2, 3>>), PyList(<<1, 2, 3>>),
     PyMember(Member("AZURE"))}
Defaults == {PyNone, PyTuple(<<1, 2, 3>>), PyStr(<<"r", "e", "d">>)}

\* colormap2 dictionaries of one entry: the key is a custom name or the name
\* of a registry member, the value is in one of the forms expr may have.
MapKeys == {<<"a", "c", "c", "e", "n", "t">>, <<"r", "e", "d">>}
MapValues ==
    {PyTuple(<<1, 2, 3>>), PyStr(<<"#", "0", "1", "0", "2", "0", "3">>), PyStr(<<"1", ",", "2", ",", "3">>), PyStr(<<"A", "z", "u", "r", "e">>),
     PyStr(<<"n", "o", "s", "u", "c", "h">>)}
MapExprs == {<<"a", "c", "c", "e", "n", "t">>, <<" ", "A", "c", "c", "e", "n", "t", " ">>, <<"R", "E", "D">>, <<"a", "z", "u", "r", "e">>, <<"n", "o", "s", "u", "c", "h">>}

\* color_parse(expr, default=d)
CallColorParse ==
    /\ call = Idle
    /\ \E s \in ParseStrs, d \in Defaults :
        /\ call' = [op |-> "color_parse", expr |-> PyStr(s), colormap2 |-> EmptyMap,
                    default |-> d]
        /\ ret' = color_parse(PyStr(s), EmptyMap, d)
    /\ UNCHANGED objects

\* color_parse(expr, default=d), expr not a str
CallColorParseOther ==
    /\ call = Idle
    /\ \E x \in OtherExprs, d \in Defaults :
        /\ call' = [op |-> "color_parse", expr |-> x, colormap2 |-> EmptyMap,
                    default |-> d]
        /\ ret' = color_parse(x, EmptyMap, d)
    /\ UNCHANGED objects

\* color_parse(expr, colormap2={k: v})
CallColorParseMapped ==
    /\ call = Idle
    /\ \E s \in MapExprs, k \in MapKeys, v \in MapValues :
        LET colormap2 == [x \in {k} |-> v]
        IN  /\ call' = [op |-> "color_parse", expr |-> PyStr(s), colormap2 |-> colormap2,
                        default |-> PyNone]
            /\ ret' = color_parse(PyStr(s), colormap2, PyNone)
    /\ UNCHANGED objects

\* e.hex_format()
CallHexFormat ==
    /\ call = Idle
    /\ \E e \in Members :
        /\ call' = [op |-> "hex_format", member |-> e]
        /\ ret' = hex_format(e)
    /\ UNCHANGED objects

\* NamedColor.by_value(e.hex_format()), and the same with the leading
\* character of the string removed (tests/test_colors.py lines 7-8).  The
\* second call, on the string the first returned; origin remembers e.
ByValueOfHexFormat ==
    /\ call.op = "hex_format"
    /\ ret.kind = "str"
    /\ ret.val # <<>>
    /\ \E bare \in BOOLEAN :
        LET s == IF bare THEN Tail(ret.val) ELSE ret.val
        IN  /\ call' = [op |-> "by_value", value |-> PyStr(s), args |-> <<>>,
                        only_standard |-> FALSE, origin |-> call.member]
            /\ ret' = by_value(PyStr(s), <<>>, FALSE)
    /\ UNCHANGED objects

\* NamedColor.by_value(s, only_standard=...), s a str
ByValueStr ==
    /\ call = Idle
    /\ \E s \in Curated, only_standard \in BOOLEAN :
        /\ call' = [op |-> "by_value", value |-> PyStr(s), args |-> <<>>,
                    only_standard |-> only_standard, origin |-> 0]
        /\ ret' = by_value(PyStr(s), <<>>, only_standard)
    /\ UNCHANGED objects

(***************************************************************************)
(* Inputs of NamedColor.by_name and NamedColor.all_colors.                 *)
(***************************************************************************)
\* A member's name as written, casefolded, in alternating case, and with
\* blanks around it.
NameStyles == {"exact", "casefold", "mixed", "padded"}
Styled(nm, style) ==
    CASE style = "exact" -> nm
      [] style = "casefold" -> casefold(nm)
      [] style = "mixed" -> [i \in 1..Len(nm) |-> IF i % 2 = 1 THEN casefold_char(nm[i]) ELSE nm[i]]
      [] OTHER -> <<" ", "\t">> \o casefold(nm) \o <<" ">>
\* Names no member has: a member's name with a character dropped, added, or a
\* blank inside.
NoNames ==
    {<<"n", "o", "s", "u", "c", "h">>, <<>>, <<" ", " ">>, <<"g", "r", "a", "y", " ", "5", "0">>, <<"A", "Z", "U", "R">>, <<"a", "z", "u", "r", "e", "e">>, <<"a", " ", "z", "u", "r", "e">>, <<"n", "a", "m", "e">>,
     <<"v", "a", "l", "u", "e">>, <<"b", "l", "a", "c", "k", "_">>}

\* NamedColor.by_name(name), name a spelling of a member's name
CallByName ==
    /\ call = Idle
    /\ \E e \in Members, style \in NameStyles :
        LET nm == PyStr(Styled(member_name[e], style))
        IN  /\ call' = [op |-> "by_name", name |-> nm, spelt |-> e]
            /\ ret' = by_name(nm)
    /\ UNCHANGED objects

\* NamedColor.by_name(name), name None or a str that names no member
CallByNameOther ==
    /\ call = Idle
    /\ \E nm \in {PyNone} \cup {PyStr(x) : x \in NoNames \cup Generated} :
        /\ call' = [op |-> "by_name", name |-> nm, spelt |-> 0]
        /\ ret' = by_name(nm)
    /\ UNCHANGED objects

\* sort_by values: the default and one of each branch (any value no branch
\* names sorts by name, as 'name' does).
SortBys == {"named_hue", "hue", "brightness", "name"}

\* NamedColor.all_colors(only_standard=..., sort_by=...); sort_by is
\* 'named_hue' when the caller leaves it out.
CallAllColors ==
    /\ call = Idle
    /\ \E only_standard \in BOOLEAN, sort_by \in SortBys :
        /\ call' = [op |-> "all_colors", only_standard |-> only_standard,
                    sort_by |-> sort_by]
        /\ ret' = all_colors(only_standard, sort_by)
    /\ UNCHANGED objects

(***************************************************************************)
(* Inputs of the colour transforms and of e.float_tuple.                   *)
(***************************************************************************)
\* Int channels around the light/dark threshold and at the ends; float
\* channels likewise (0 and 1 belong to both).
IntLevels == {IntNum(0), IntNum(1), IntNum(127), IntNum(128), IntNum(129), IntNum(255)}
FloatLevels == {IntNum(0), <<1, 2>>, <<128, 255>>, <<129, 255>>, IntNum(1)}
IntAlphas == {IntNum(0), IntNum(200)}
FloatAlphas == {<<1, 2>>}
ShadeTuples ==
    [1..3 -> IntLevels] \cup [1..3 -> FloatLevels]
    \cup {t \o <<a>> : t \in [1..3 -> IntLevels], a \in IntAlphas}
    \cup {t \o <<a>> : t \in [1..3 -> FloatLevels], a \in FloatAlphas}
\* Tuples that are no colour: too short, too long, empty.
BadTuples == {<<>>, <<IntNum(5), IntNum(6)>>, <<<<1, 2>>, <<1, 2>>>>,
              <<IntNum(5), IntNum(6), IntNum(7), IntNum(8), IntNum(9)>>}
Degrees == {IntNum(0), IntNum(120)}
\* alpha of e.float_tuple: left out (the default applies) or given
MemberAlphas == {None, <<1, 2>>, IntNum(0)}
alpha_default == IntNum(1)

\* e.float_tuple() and e.float_tuple(alpha=a)
CallMemberFloatTuple ==
    /\ call = Idle
    /\ \E e \in Members, a \in MemberAlphas :
        /\ call' = [op |-> "member_float_tuple", member |-> e, alpha |-> a]
        /\ ret' = member_float_tuple(e, IF a = None THEN alpha_default ELSE a)
    /\ UNCHANGED objects

\* color_outline(c)
CallOutline ==
    /\ call = Idle
    /\ \E c \in ShadeTuples \cup BadTuples :
        /\ call' = [op |-> "color_outline", arg |-> c]
        /\ ret' = color_outline(c)
    /\ UNCHANGED objects

\* color_subdued(c)
CallSubdued ==
    /\ call = Idle
    /\ \E c \in ShadeTuples \cup BadTuples :
        /\ call' = [op |-> "color_subdued", arg |-> c]
        /\ ret' = color_subdued(c)
    /\ UNCHANGED objects

\* color_monochrome(c), hue left at its default -1
CallMonochrome ==
    /\ call = Idle
    /\ \E c \in ShadeTuples \cup BadTuples :
        /\ call' = [op |-> "color_monochrome", arg |-> c]
        /\ ret' = color_monochrome(c, IntNum(hue_default))
    /\ UNCHANGED objects

\* color_complementary(c, degrees)
CallComplementary ==
    /\ call = Idle
    /\ \E c \in ShadeTuples \cup BadTuples, degrees \in Degrees :
        /\ call' = [op |-> "color_complementary", arg |-> c, degrees |-> degrees]
        /\ ret' = color_complementary(c, degrees)
    /\ UNCHANGED objects

\* The caller is done with the outcome.
(***************************************************************************)
(* Inputs of GWEnum.by_value, display_name and default.                    *)
(***************************************************************************)
\* The enum classes of tests/test_enum.py lines 6-22 (the secondary value of
\* line 8 without its double quotes; by_value reads no secondary value).
PluralValues ==
    [name |-> <<"P", "l", "u", "r", "a", "l", "V", "a", "l", "u", "e", "s">>,
     value_count_is_1 |-> FALSE,
     members |->
        <<[name |-> <<"s", "t", "r", "i", "n", "g", "_", "w", "i", "t", "h", "_", "e", "x", "t", "r", "a">>,
           value |-> GWTuple(<<GWStr(<<"b", "a", "r">>), GWStr(<<"T", "h", "e", " ", "b", "a", "r", " ", "i", "n", " ", "f", "o", "o", " ", "b", "a", "r", " ", "b", "a", "z">>)>>)],
          [name |-> <<"I", "N", "T", "_", "W", "I", "T", "H", "O", "U", "T", "_", "E", "X", "T", "R", "A">>, value |-> GWInt(17)],
          [name |-> <<"R", "G", "B", "_", "w", "i", "t", "h", "_", "e", "x", "t", "r", "a">>,
           value |-> GWTuple(<<GWTuple(<<GWInt(128), GWInt(0), GWInt(128)>>),
                               GWStr(<<"M", "a", "g", "e", "n", "t", "a">>)>>)],
          [name |-> <<"R", "G", "B", "A", "_", "w", "i", "t", "h", "_", "e", "x", "t", "r", "a">>,
           value |-> GWTuple(<<GWTuple(<<GWInt(210), GWInt(96), GWInt(0), GWInt(128)>>),
                               GWStr(<<"O", "r", "a", "n", "g", "i", "s", "h">>), GWStr(<<"T", "r", "a", "n", "s", "l", "u", "c", "e", "n", "t">>)>>)]>>]

SingularValue ==
    [name |-> <<"S", "i", "n", "g", "u", "l", "a", "r", "V", "a", "l", "u", "e">>,
     value_count_is_1 |-> TRUE,
     members |->
        <<[name |-> <<"s", "i", "n", "g", "l", "e", "_", "s", "t", "r", "i", "n", "g">>, value |-> GWStr(<<"b", "a", "r">>)],
          [name |-> <<"S", "I", "N", "G", "L", "E", "_", "I", "N", "T">>, value |-> GWInt(17)],
          [name |-> <<"s", "i", "n", "g", "l", "e", "_", "R", "G", "B">>, value |-> GWTuple(<<GWInt(128), GWInt(0), GWInt(128)>>)],
          [name |-> <<"s", "i", "n", "g", "l", "e", "_", "R", "G", "B", "A">>,
           value |-> GWTuple(<<GWInt(210), GWInt(96), GWInt(0), GWInt(128)>>)]>>]

TestEnums == {PluralValues, SingularValue}

\* Other subclasses of GWEnum: up to MaxMembers members, of different names
\* and different values (a repeated value would define an alias, not a
\* member).
MaxMembers == 2
EnumNames == {<<"x">>, <<"Y">>, <<"b", "a", "r">>}
EnumValues ==
    {GWStr(<<"b", "a", "r">>), GWStr(<<"B", "a", "r">>), GWStr(<<" ", "y">>), GWStr(<<"x">>), GWStr(<<>>),
     GWInt(0), GWInt(17), GWTuple(<<GWInt(1), GWStr(<<"y">>)>>)}
EnumMembers == [name : EnumNames, value : EnumValues]

RECURSIVE MemberLists(_)
MemberLists(n) ==
    IF n = 0
    THEN {<<>>}
    ELSE {Append(l, m) : l \in MemberLists(n - 1),
                         m \in EnumMembers} 

Unique(l) ==
    \A i \in 1..Len(l) : \A j \in 1..Len(l) :
        i # j => (l[i].name # l[j].name /\ l[i].value # l[j].value)

OtherEnums ==
    {[name |-> <<"E">>, value_count_is_1 |-> one, members |-> l] :
        one \in BOOLEAN,
        l \in {k \in UNION {MemberLists(n) : n \in 1..MaxMembers} : Unique(k)}}

EnumClasses == TestEnums \cup OtherEnums

\* Values asked for.
EnumQueries ==
    {GWNone, GWStr(<<>>), GWInt(0), GWTuple(<<>>),
     GWStr(<<"b", "a", "r">>), GWStr(<<" ", "B", "A", "R", " ">>), GWStr(<<"x">>), GWStr(<<"y">>), GWStr(<<"1", "7">>),
     GWStr(<<"n", "o", "_", "s", "u", "c", "h">>), GWStr(<<"N", "o", "_", "S", "u", "c", "h">>), GWStr(<<"S", "I", "N", "G", "L", "E", "_", "I", "N", "T">>),
     GWInt(17), GWInt(18),
     GWTuple(<<GWInt(128), GWInt(0), GWInt(128)>>), GWTuple(<<GWInt(1), GWInt(2)>>)}

\* cls.by_value(value)
CallGWEnumByValue ==
    /\ call = Idle
    /\ \E cls \in EnumClasses, value \in EnumQueries :
        /\ call' = [op |-> "GWEnum.by_value", cls |-> cls, value |-> value, origin |-> 0]
        /\ ret' = GWEnum_by_value(cls, value)
    /\ UNCHANGED objects

\* cls.by_value(e.display_name()) for a member e of cls
GWEnumByValueOfDisplayName ==
    /\ call = Idle
    /\ \E cls \in EnumClasses :
        \E e \in 1..Len(cls.members) :
            /\ call' = [op |-> "GWEnum.by_value", cls |-> cls,
                        value |-> GWStr(display_name(cls, e)), origin |-> e]
            /\ ret' = GWEnum_by_value(cls, GWStr(display_name(cls, e)))
    /\ UNCHANGED objects

\* NamedColor.by_value(e.display_name()): NamedColor overrides by_value
NamedColorByValueOfDisplayName ==
    /\ call = Idle
    /\ \E e \in Members :
        /\ call' = [op |-> "NamedColor.by_value", origin |-> e,
                    value |-> PyStr(NamedColor_display_name(e))]
        /\ ret' = by_value(PyStr(NamedColor_display_name(e)), <<>>, FALSE)
    /\ UNCHANGED objects

\* cls.default()
CallGWEnumDefault ==
    /\ call = Idle
    /\ \E cls \in EnumClasses :
        /\ call' = [op |-> "GWEnum.default", cls |-> cls]
        /\ ret' = RetMember(GWEnum_default(cls))
    /\ UNCHANGED objects

(***************************************************************************)
(* Inputs of snake_case: identifiers of up to MaxIdent characters, letters *)
(* of either case, digits and underscores.                                 *)
(***************************************************************************)
MaxIdent == 4
IdentChars == {"a", "b", "T", "1", "_"}

RECURSIVE Identifiers(_)
Identifiers(n) ==
    IF n = 0
    THEN {<<>>}
    ELSE Identifiers(n - 1) \cup {Append(s, c) : s \in Identifiers(n - 1), c \in IdentChars}

\* The identifiers of tests/test_strings.py lines 5-9
TestIdentifiers == {<<"S", "o", "m", "e", "T", "h", "i", "n", "g">>, <<"s", "o", "m", "e", "T", "h", "i", "n", "g">>, <<"s", "o", "m", "e", "_", "t", "h", "i", "n", "g">>, <<"s", "o", "m", "e", "t", "h", "i", "n", "g">>, <<>>}

\* snake_case(identifier)
CallSnakeCase ==
    /\ call = Idle
    /\ \E identifier \in Identifiers(MaxIdent) \cup TestIdentifiers :
        /\ call' = [op |-> "snake_case", identifier |-> identifier, origin |-> identifier]
        /\ ret' = snake_case(identifier)
    /\ UNCHANGED objects

\* snake_case(snake_case(s))
CallSnakeCaseOfResult ==
    /\ call = Idle
    /\ \E s \in Identifiers(MaxIdent) \cup TestIdentifiers :
        /\ call' = [op |-> "snake_case", identifier |-> snake_case(s).val, origin |-> s]
        /\ ret' = snake_case(snake_case(s).val)
    /\ UNCHANGED objects

(***************************************************************************)
(* Inputs of parse_keystroke_expression: up to MaxParts key identifiers,   *)
(* as a list or joined with "+" into a str.                                *)
(***************************************************************************)
MaxParts == 2
KeyParts ==
    {<<"s", "h", "i", "f", "t">>, <<"S", "h", "i", "f", "t", " ">>, <<"c", "t", "r", "l">>, <<"a", "l", "t">>, <<"o", "p", "t">>, <<"m", "e", "t", "a">>, <<"a">>, <<"F", "4">>, <<"p", "l", "u", "s">>,
     <<"n", "u", "m", "p", "a", "d", "a", "d", "d">>, <<"b", "o", "g", "u", "s">>, <<>>}

RECURSIVE PartLists(_)
PartLists(n) ==
    IF n = 0
    THEN {<<>>}
    ELSE PartLists(n - 1) \cup {Append(l, p) : l \in PartLists(n - 1), p \in KeyParts}

\* keycode: none given (0), or the code of the key "a"
Keycodes == {0, 97}

\* parse_keystroke_expression([...], keycode, as_generic)
ParseKeystrokeList ==
    /\ call = Idle
    /\ \E l \in PartLists(MaxParts), keycode \in Keycodes, as_generic \in BOOLEAN :
        /\ call' = [op |-> "parse_keystroke_expression", keystroke_expression |-> ExprList(l),
                    keycode |-> keycode, as_generic |-> as_generic]
        /\ ret' = parse_keystroke_expression(ExprList(l), keycode, as_generic)
    /\ UNCHANGED objects

\* parse_keystroke_expression("...+...", keycode, as_generic)
ParseKeystrokeStr ==
    /\ call = Idle
    /\ \E l \in PartLists(MaxParts), keycode \in Keycodes, as_generic \in BOOLEAN :
        /\ call' = [op |-> "parse_keystroke_expression",
                    keystroke_expression |-> ExprStr(join(<<"+">>, l)),
                    keycode |-> keycode, as_generic |-> as_generic]
        /\ ret' = parse_keystroke_expression(ExprStr(join(<<"+">>, l)), keycode, as_generic)
    /\ UNCHANGED objects

\* Questions, callbacks and button wordings of the callers of ask_user_yes_no.
Messages == {"Delete it?", "Quit?"}
YesCallbacks == {Callable("on_yes"), Callable("confirmed")}
NoCallbacks == {None, Callable("on_no")}
YesWordings == {"YES", "Sure"}
Titles == {"Question", "Confirm"}

\* ask_user_yes_no(msg, on_yes, on_no, yes, title=title); the trace starts afresh with
\* the question.
AskUserYesNo ==
    /\ call = Idle
    /\ \E msg \in Messages, on_yes \in YesCallbacks, on_no \in NoCallbacks,
          yes \in YesWordings, title \in Titles :
        /\ call' = [op |-> "ask_user_yes_no", msg |-> msg, on_yes |-> on_yes, on_no |-> on_no]
        /\ dialog' = ask_user_yes_no([dialog EXCEPT !.trace = <<>>], msg, on_yes, on_no,
                                     yes, "NO", title)
    /\ ret' = RetNone
    /\ UNCHANGED but_dialog

\* The button whose on_release is handler, if the open popup shows one.
Shows(handler) ==
    /\ dialog.popup_open
    /\ \E i \in 1..Len(dialog.on_release) : dialog.on_release[i] = handler

\* The user releases the yes button: Button dispatches on_release = on_ok.
PressYes ==
    /\ call = Idle
    /\ Shows("on_ok")
    /\ call' = [op |-> "YesNoDialog.on_ok"]
    /\ dialog' = on_ok([dialog EXCEPT !.trace = <<>>]).dlg
    /\ ret' = on_ok([dialog EXCEPT !.trace = <<>>]).ret
    /\ UNCHANGED but_dialog

\* The user releases the no button: on_release = on_cancel.
PressNo ==
    /\ call = Idle
    /\ Shows("on_cancel")
    /\ call' = [op |-> "YesNoDialog.on_cancel"]
    /\ dialog' = on_cancel([dialog EXCEPT !.trace = <<>>]).dlg
    /\ ret' = on_cancel([dialog EXCEPT !.trace = <<>>]).ret
    /\ UNCHANGED but_dialog

\* The timeout lengths asked for, the seconds between two frames of the
\* Clock, and the extent of a run: seconds of Clock time, events scheduled.
InactivityMinutes == {1, 2}
FrameSeconds == {30, 60}
MaxTime == 240
MaxEvents == 4

\* add_inactivity_timeout(app, handler, m), from the app's build()
AddInactivityTimeout ==
    /\ call = Idle
    /\ app.attributes = {}
    /\ \E m \in InactivityMinutes :
        /\ call' = [op |-> "add_inactivity_timeout", inactivity_minutes |-> m]
        /\ app' = add_inactivity_timeout(app, kivy, m).app
        /\ kivy' = add_inactivity_timeout(app, kivy, m).kivy
    /\ ret' = RetNone
    /\ UNCHANGED but_app

\* The Window dispatches on_touch_down to its bound handlers.
TouchDown ==
    /\ call = Idle
    /\ kivy.on_touch_down # <<>>
    /\ Len(kivy.events) + Len(kivy.on_touch_down) <= MaxEvents
    /\ call' = [op |-> "on_touch_down"]
    /\ app' = dispatch(kivy.on_touch_down, app, kivy).app
    /\ kivy' = dispatch(kivy.on_touch_down, app, kivy).kivy
    /\ ret' = RetNone
    /\ UNCHANGED but_app

\* The Window dispatches on_key_down to its bound handlers.
KeyDown ==
    /\ call = Idle
    /\ kivy.on_key_down # <<>>
    /\ Len(kivy.events) + Len(kivy.on_key_down) <= MaxEvents
    /\ call' = [op |-> "on_key_down"]
    /\ app' = dispatch(kivy.on_key_down, app, kivy).app
    /\ kivy' = dispatch(kivy.on_key_down, app, kivy).kivy
    /\ ret' = RetNone
    /\ UNCHANGED but_app

\* app.reset_timeout()
ResetTimeout ==
    /\ call = Idle
    /\ "reset_timeout" \in app.attributes
    /\ Len(kivy.events) < MaxEvents
    /\ call' = [op |-> "reset_timeout"]
    /\ app' = reset_timeout(app, kivy).app
    /\ kivy' = reset_timeout(app, kivy).kivy
    /\ ret' = RetNone
    /\ UNCHANGED but_app

\* app.cancel_timeout()
CancelTimeout ==
    /\ call = Idle
    /\ "cancel_timeout" \in app.attributes
    /\ call' = [op |-> "cancel_timeout"]
    /\ kivy' = cancel_timeout(app, kivy)
    /\ ret' = RetNone
    /\ UNCHANGED app
    /\ UNCHANGED but_app

\* A frame of the Clock.
ClockTick ==
    /\ call = Idle
    /\ \E dt \in FrameSeconds :
        /\ kivy.time + dt <= MaxTime
        /\ call' = [op |-> "Clock.tick", dt |-> dt]
        /\ kivy' = Clock_tick(kivy, dt)
    /\ ret' = RetNone
    /\ UNCHANGED app
    /\ UNCHANGED but_app

\* The keys and modifier lists the keyboard delivers, and the number of
\* events of a run.
KeycodesDelivered == {<<305, "lctrl">>, <<304, "shift">>, <<282, "f1">>}
ModifiersDelivered == {<<>>, <<"ctrl">>, <<"ctrl", "shift">>}
MaxKeyEvents == 4

\* The keyboard delivers on_key_down.
KeyboardDown ==
    /\ call = Idle
    /\ Len(listener.delivered) < MaxKeyEvents
    /\ \E keycode \in KeycodesDelivered, modifiers \in ModifiersDelivered :
        LET heard == [listener EXCEPT !.invoked = <<>>, !.delivered = Append(@, "down")]
        IN /\ call' = [op |-> "_on_keyboard_down", keycode |-> keycode, modifiers |-> modifiers]
           /\ listener' = on_keyboard_down(heard, keycode, modifiers).listener
           /\ ret' = on_keyboard_down(heard, keycode, modifiers).ret
    /\ UNCHANGED but_listener

\* The keyboard delivers on_key_up.
KeyboardUp ==
    /\ call = Idle
    /\ Len(listener.delivered) < MaxKeyEvents
    /\ \E keycode \in KeycodesDelivered :
        LET heard == [listener EXCEPT !.invoked = <<>>, !.delivered = Append(@, "up")]
        IN /\ call' = [op |-> "_on_keyboard_up", keycode |-> keycode]
           /\ listener' = on_keyboard_up(heard, keycode).listener
           /\ ret' = on_keyboard_up(heard, keycode).ret
    /\ UNCHANGED but_listener

\* The ports a caller names: those find_cameras tries and some beyond.
MaxPort == 5
Ports == 0..MaxPort

\* CameraInventory(), with cameras that open at the ports in opening
NewCameraInventory ==
    /\ call = Idle
    /\ \E opening \in SUBSET (0..MAX_PORT_NUMBER) :
        /\ call' = [op |-> "CameraInventory", opening |-> opening]
        /\ inventory' = CameraInventory_call(inventory, opening).inventory
        /\ ret' = CameraInventory_call(inventory, opening).ret
    /\ UNCHANGED but_inventory

\* CameraInventory().check_camera(port)
CheckCamera ==
    /\ call = Idle
    /\ inventory.exists
    /\ \E port \in Ports, opens \in BOOLEAN :
        /\ call' = [op |-> "check_camera", port |-> port, opens |-> opens,
                    was_active |-> inventory._active_camera_port,
                    was_known |-> port \in DOMAIN inventory._inventory]
        /\ inventory' = check_camera(inventory, port, 0, 0, opens).inventory
        /\ ret' = check_camera(inventory, port, 0, 0, opens).ret
    /\ UNCHANGED but_inventory

\* CameraInventory().active_camera_port
ReadActiveCameraPort ==
    /\ call = Idle
    /\ inventory.exists
    /\ call' = [op |-> "active_camera_port"]
    /\ inventory' = get_active_camera_port(inventory).inventory
    /\ ret' = get_active_camera_port(inventory).ret
    /\ UNCHANGED but_inventory

\* CameraInventory().active_camera_port = value
AssignActiveCameraPort ==
    /\ call = Idle
    /\ inventory.exists
    /\ \E value \in Ports :
        /\ call' = [op |-> "active_camera_port=", value |-> value]
        /\ inventory' = set_active_camera_port(inventory, value).inventory
        /\ ret' = set_active_camera_port(inventory, value).ret
    /\ UNCHANGED but_inventory

\* CameraInventory().active_camera
ReadActiveCamera ==
    /\ call = Idle
    /\ inventory.exists
    /\ call' = [op |-> "active_camera"]
    /\ inventory' = active_camera(inventory).inventory
    /\ ret' = active_camera(inventory).ret
    /\ UNCHANGED but_inventory

\* The factors zoom() is called with (the scroll wheel's and others), in
\* tenths, and the largest zoom factor of a run.
ZoomFactors == {-25, -ZOOM_INCREMENT, 0, ZOOM_INCREMENT, 5}
MaxZoom == 30

\* image_window.zoom(factor)
Zoom ==
    /\ call = Idle
    /\ \E factor \in ZoomFactors :
        /\ window.zoom_factor + factor <= MaxZoom
        /\ call' = [op |-> "zoom", factor |-> factor]
        /\ window' = zoom([window EXCEPT !.repaints = 0], factor)
    /\ ret' = RetNone
    /\ UNCHANGED but_window

\* image_window.reset_zooming()
ResetZooming ==
    /\ call = Idle
    /\ call' = [op |-> "reset_zooming"]
    /\ window' = reset_zooming([window EXCEPT !.repaints = 0])
    /\ ret' = RetNone
    /\ UNCHANGED but_window

Return ==
    /\ call # Idle
    /\ call' = Idle
    /\ ret' = NoRet
    /\ UNCHANGED objects
    /\ UNCHANGED objects
    /\ UNCHANGED objects
    /\ UNCHANGED objects
    /\ UNCHANGED objects
    /\ UNCHANGED objects
    /\ UNCHANGED objects
    /\ UNCHANGED objects
    /\ UNCHANGED objects

NextMatch ==
    \/ ByValueNone
    \/ ByValueMember
    \/ ByValueInts
    \/ ByValueMoreInts
    \/ ByValueTuple
    \/ ByValueTriple
    \/ Return

NextCodec ==
    \/ CallFloatTuple
    \/ CallIntTuple
    \/ CallIntTupleOfResult
    \/ Return

NextParse ==
    \/ CallColorParseOther
    \/ CallColorParseMapped
    \/ CallColorParse
    \/ CallHexFormat
    \/ ByValueOfHexFormat
    \/ ByValueStr
    \/ Return

NextRegistry ==
    \/ CallByNameOther
    \/ CallByName
    \/ CallAllColors
    \/ Return

NextShade ==
    \/ CallMemberFloatTuple
    \/ CallOutline
    \/ CallSubdued
    \/ CallMonochrome
    \/ CallComplementary
    \/ Return

NextEnum ==
    \/ CallGWEnumByValue
    \/ GWEnumByValueOfDisplayName
    \/ NamedColorByValueOfDisplayName
    \/ CallGWEnumDefault
    \/ Return

NextStrings ==
    \/ CallSnakeCase
    \/ CallSnakeCaseOfResult
    \/ Return

NextDialog ==
    \/ AskUserYesNo
    \/ PressYes
    \/ PressNo
    \/ Return

NextInactivity ==
    \/ AddInactivityTimeout
    \/ TouchDown
    \/ KeyDown
    \/ ResetTimeout
    \/ CancelTimeout
    \/ ClockTick
    \/ Return

NextListener ==
    \/ KeyboardDown
    \/ KeyboardUp
    \/ Return

NextCameras ==
    \/ NewCameraInventory
    \/ CheckCamera
    \/ ReadActiveCameraPort
    \/ AssignActiveCameraPort
    \/ ReadActiveCamera
    \/ Return

NextZoom ==
    \/ Zoom
    \/ ResetZooming
    \/ Return

NextKeys ==
    \/ ParseKeystrokeList
    \/ ParseKeystrokeStr
    \/ Return

Next ==
    \/ NextMatch \/ NextCodec \/ NextParse \/ NextRegistry \/ NextShade
    \/ NextEnum \/ NextStrings \/ NextKeys \/ NextDialog \/ NextInactivity
    \/ NextListener \/ NextCameras \/ NextZoom

\* The nearest-colour search alone, the codec alone, parsing and formatting,
\* the registry's lookups and listing, the transforms, and all of them.
SpecMatch == Init /\ [][NextMatch]_vars
SpecCodec == Init /\ [][NextCodec]_vars
SpecParse == Init /\ [][NextParse]_vars
SpecRegistry == Init /\ [][NextRegistry]_vars
SpecShade == Init /\ [][NextShade]_vars
SpecEnum == Init /\ [][NextEnum]_vars
SpecStrings == Init /\ [][NextStrings]_vars
SpecKeys == Init /\ [][NextKeys]_vars
SpecDialog == Init /\ [][NextDialog]_vars
SpecInactivity == Init /\ [][NextInactivity]_vars
SpecListener == Init /\ [][NextListener]_vars
SpecCameras == Init /\ [][NextCameras]_vars
SpecZoom == Init /\ [][NextZoom]_vars
Spec == Init /\ [][Next]_vars

(***************************************************************************)
(* Notions the properties below are stated with.  They are read off the    *)
(* registry data and the call record, not off the operators above.         *)
(***************************************************************************)
Rgb(e) == NamedColor[e].rgb

\* The square of the Euclidean distance over R, G, B between v and member e.
SqDist(v, e) ==
    (v[1] - Rgb(e)[1]) * (v[1] - Rgb(e)[1]) + (v[2] - Rgb(e)[2]) * (v[2] - Rgb(e)[2])
    + (v[3] - Rgb(e)[3]) * (v[3] - Rgb(e)[3])

StandardMembers == {e \in Members : NamedColor[e].std}

\* e is the member of S nearest to v, and the earliest defined of the nearest.
NearestIn(S, v, e) ==
    /\ e \in S
    /\ \A j \in S : SqDist(v, e) < SqDist(v, j) \/ (SqDist(v, e) = SqDist(v, j) /\ e <= j)

\* The colour a by_value call asks about: the tuple given, or the ints given
\* one by one.
Asked == IF call.value.type = "int" THEN <<call.value.int>> \o call.args ELSE call.value.tup

\* A by_value call with an int colour of n channels, each in 0..255.
AsksColour(n) ==
    /\ call.op = "by_value"
    /\ call.value.type \in {"int", "tuple"}
    /\ Len(Asked) = n
    /\ \A i \in 1..n : Asked[i] \in 0..255

AskedRgb == SubSeq(Asked, 1, 3)

\* C1: for every member e, by_value(e's RGB triple) returns e; where several
\* members share the triple, the first defined of them.
C1_ExactMatch ==
    (AsksColour(3) /\ ~call.only_standard /\ Asked \in MemberRgbs)
        => /\ ret.kind = "member"
           /\ Rgb(ret.val) = Asked
           /\ \A j \in 1..(ret.val - 1) : Rgb(j) # Asked

\* C1 happens: the triple of a member defined after BLACK was asked for and
\* that member came back.
C1_Witness ==
    /\ AsksColour(3)
    /\ ~call.only_standard
    /\ ret.kind = "member"
    /\ ret.val > Member("BLACK")
    /\ Rgb(ret.val) = Asked

\* C2: for an int RGB or RGBA value (one tuple or positional ints) that is no
\* member's RGB, by_value returns a member at the least Euclidean distance
\* over R, G, B (alpha plays no part), the first defined among those.
C2_Nearest ==
    ((AsksColour(3) \/ AsksColour(4)) /\ ~call.only_standard /\ AskedRgb \notin MemberRgbs)
        => /\ ret.kind = "member"
           /\ NearestIn(Members, Asked, ret.val)

\* C2 happens: r, g, b, a were given one by one, no member has that RGB, and
\* the member returned has a later member exactly as near.
C2_Witness ==
    /\ AsksColour(4)
    /\ call.value.type = "int"
    /\ AskedRgb \notin MemberRgbs
    /\ ret.kind = "member"
    /\ \E j \in Members : j > ret.val /\ SqDist(Asked, j) = SqDist(Asked, ret.val)

\* C3: by_value(v, only_standard=True) returns the member the same search
\* (exact match first, else least distance, earliest wins) finds among the
\* members whose is_standard() is true; the result is a standard colour.
C3_OnlyStandard ==
    (AsksColour(3) /\ call.only_standard)
        => /\ ret.kind = "member"
           /\ NamedColor[ret.val].std
           /\ NearestIn(StandardMembers, Asked, ret.val)

\* C3 happens: the triple of the extended colour BRICK was asked for among the
\* standard colours only, and SIENNA came back (tests/test_colors.py line 20).
C3_Witness ==
    /\ AsksColour(3)
    /\ call.only_standard
    /\ Asked = Rgb(Member("BRICK"))
    /\ ret = RetMember(Member("SIENNA"))

\* C4 as claimed: by_value called with a member returns that member.
C4_MemberReturnsItself ==
    (call.op = "by_value" /\ call.value.type = "NamedColor")
        => ret = RetMember(call.value.member)

\* C4 as the code has it: by_value called with a member raises ValueError
\* (a member is none of the accepted types int, str, tuple).
C4_MemberRaises ==
    (call.op = "by_value" /\ call.value.type = "NamedColor")
        => ret = Raise("ValueError")

\* C4 happens: by_value was called with the member AZURE.
C4_Witness ==
    /\ call.op = "by_value"
    /\ call.value.type = "NamedColor"
    /\ call.value.member = Member("AZURE")
    /\ ret.kind = "ValueError"

(***************************************************************************)
(* The codec.                                                              *)
(***************************************************************************)
\* x is an int in 0..255; x lies in [0.0, 1.0].
IsByte(x) == x[2] = 1 /\ x[1] \in 0..255
InUnit(x) == 0 <= x[1] /\ x[1] <= x[2]

\* The two representations of a colour tuple.
IntRep(t) == \A i \in DOMAIN t : IsByte(t[i])
FloatRep(t) == \A i \in DOMAIN t : InUnit(t[i])

\* x / 255, in lowest terms.
Over255(x) ==
    LET g == CHOOSE k \in 1..255 :
                 /\ x[1] % k = 0 /\ (x[2] * 255) % k = 0
                 /\ \A m \in (k + 1)..255 : ~(x[1] % m = 0 /\ (x[2] * 255) % m = 0)
    IN  IF x[1] = 0 THEN <<0, 1>> ELSE <<x[1] \div g, (x[2] * 255) \div g>>

\* Channel x of tuple t in float form: itself when t is a float tuple, else x / 255.
FloatForm(t, x) == IF FloatRep(t) THEN x ELSE Over255(x)

\* x * 255 cut to an integer and kept within 0..255.
ByteOf(x) ==
    LET k == (x[1] * 255) \div x[2]
    IN  <<IF k < 0 THEN 0 ELSE IF k > 255 THEN 255 ELSE k, 1>>

\* C5: int_tuple(float_tuple(t)) == t for every int tuple t of 3 or 4
\* channels, each in 0..255.  Stated for the tuples float_tuple converts, those
\* with a channel above 1: a tuple of 0s and 1s only is taken for a float tuple
\* (the documented tie-break of is_float_tuple) and is not converted at all.
C5_RoundTrip ==
    (call.op = "int_tuple" /\ call.origin # None
        /\ Len(call.origin) \in {3, 4} /\ IntRep(call.origin) /\ ~FloatRep(call.origin))
        => ret = RetTuple(call.origin)

\* C6: float_tuple raises ValueError for every non-empty tuple whose length is
\* not 3 or 4, whatever its elements and whatever alpha.
C6_FloatTupleArity ==
    (call.op = "float_tuple" /\ Len(call.arg) >= 1 /\ Len(call.arg) \notin {3, 4})
        => ret.kind = "ValueError"

\* C7: int_tuple raises ValueError for every non-empty tuple whose length is
\* not 3 or 4.
C7_IntTupleArity ==
    (call.op = "int_tuple" /\ call.origin = None
        /\ Len(call.arg) >= 1 /\ Len(call.arg) \notin {3, 4})
        => ret.kind = "ValueError"

\* C8: for a 3- or 4-tuple t in either representation, float_tuple(t, alpha=a)
\* with a in [0.0, 1.0] returns t's R, G, B in float form followed by a; with
\* alpha=None a 3-tuple stays a 3-tuple and a 4-tuple's alpha is converted
\* along with R, G, B.
C8_FloatTupleAlpha ==
    (call.op = "float_tuple" /\ Len(call.arg) \in {3, 4}
        /\ (IntRep(call.arg) \/ FloatRep(call.arg)))
        => /\ (call.alpha # None /\ InUnit(call.alpha))
                => ret = RetTuple(<<FloatForm(call.arg, call.arg[1]),
                                    FloatForm(call.arg, call.arg[2]),
                                    FloatForm(call.arg, call.arg[3]),
                                    call.alpha>>)
           /\ call.alpha = None
                => ret = RetTuple([i \in DOMAIN call.arg |-> FloatForm(call.arg, call.arg[i])])

\* C9: for a float 3- or 4-tuple ft and an int alpha a in 0..255,
\* int_tuple(ft, alpha=a) returns a 4-tuple whose fourth element is a.
C9_IntTupleAlpha ==
    (call.op = "int_tuple" /\ call.origin = None
        /\ Len(call.arg) \in {3, 4} /\ FloatRep(call.arg)
        /\ call.alpha # None /\ IsByte(call.alpha))
        => /\ ret.kind = "tuple"
           /\ Len(ret.val) = 4
           /\ ret.val[4] = call.alpha

\* C10: int_tuple with no alpha override returns a tuple of the same arity in
\* which each channel is x * 255 cut to an integer and kept within 0..255
\* (0.5 -> 127, 0.999 -> 254, 1 -> 255).
C10_IntTupleChannels ==
    (call.op = "int_tuple" /\ call.origin = None
        /\ Len(call.arg) \in {3, 4} /\ call.alpha = None)
        => ret = RetTuple([i \in DOMAIN call.arg |-> ByteOf(call.arg[i])])

(***************************************************************************)
(* Parsing and formatting.                                                 *)
(***************************************************************************)
UpperHexDigits == <<"0", "1", "2", "3", "4", "5", "6", "7", "8", "9",
                    "A", "B", "C", "D", "E", "F">>

\* The two upper-case hex digits of a byte, and the hex form of a member.
HexPair(k) == <<UpperHexDigits[(k \div 16) + 1], UpperHexDigits[(k % 16) + 1]>>
HexOf(e) == <<"#">> \o HexPair(Rgb(e)[1]) \o HexPair(Rgb(e)[2]) \o HexPair(Rgb(e)[3])

\* C11: for every member e, e.hex_format() is '#' followed by the two-digit
\* upper-case hex of e's R, G and B, and NamedColor.by_value of that string,
\* with or without its leading '#', is e.
C11_HexRoundTrip ==
    /\ call.op = "hex_format" => ret = RetStr(HexOf(call.member))
    /\ (call.op = "by_value" /\ call.origin # 0) =>
            /\ call.value.str \in {HexOf(call.origin), Tail(HexOf(call.origin))}
            /\ ret = RetMember(call.origin)

\* C11 happens: AZURE is found again from "F0FFFF", its hex form without '#'.
C11_Witness ==
    /\ call.op = "by_value"
    /\ call.origin = Member("AZURE")
    /\ call.value.str = <<"F", "0", "F", "F", "F", "F">>
    /\ ret = RetMember(Member("AZURE"))

\* Two characters are the same letter in either case, or the same character.
SameChar(a, b) == a = b \/ \E k \in 1..26 : {a, b} = {Upper[k], Lower[k]}

\* t is the name of member e in some letter case.
Names(t, e) ==
    /\ Len(t) = Len(member_name[e])
    /\ \A i \in 1..Len(t) : SameChar(t[i], member_name[e][i])

\* The members that s names once the whitespace around it is removed.
Named(s) == LET t == strip(s) IN {e \in Members : Names(t, e)}

\* The forms color_parse recognises in a str: the name of a registry member,
\* 6 or 8 hex digits after an optional '#', and three or more integers
\* separated by commas, in optional parentheses.
IsHexForm(s) ==
    LET t == strip(s)
        body == IF t # <<>> /\ t[1] = "#" THEN Tail(t) ELSE t
    IN  Len(body) \in {6, 8} /\ \A i \in 1..Len(body) : is_hex(body[i])

IsCommaForm(s) ==
    LET t == strip(s)
        inner == IF Len(t) >= 2 /\ t[1] = "(" /\ t[Len(t)] = ")"
                 THEN SubSeq(t, 2, Len(t) - 1)
                 ELSE t
        parts == split(inner, ",")
    IN  Len(parts) >= 3 /\ \A i \in 1..Len(parts) : is_decimal(strip(parts[i]))

Recognised(s) == Named(s) # {} \/ IsHexForm(s) \/ IsCommaForm(s)

\* What a call returns when it returns the Python value d.
Returned(d) ==
    CASE d.type = "NoneType" -> RetNone
      [] d.type = "str" -> RetStr(d.str)
      [] OTHER -> RetTuple(d.tup)

\* C17: for every non-empty string expr that matches none of the recognised
\* forms (no colormap2 given), color_parse(expr, default=d) returns d, None
\* when no default is given, and never raises.
C17_Unresolved ==
    (/\ call.op = "color_parse"
     /\ call.expr.type = "str"
     /\ call.expr.str # <<>>
     /\ DOMAIN call.colormap2 = {}
     /\ ~Recognised(call.expr.str))
        => ret = Returned(call.default)

\* C18: when the trimmed, case-folded expr is a key of colormap2,
\* color_parse(expr, colormap2) returns what parsing the mapped value returns,
\* whichever accepted form the value has, a registry member of the same name
\* notwithstanding.
C18_Colormap ==
    (/\ call.op = "color_parse"
     /\ call.expr.type = "str"
     /\ casefold(strip(call.expr.str)) \in DOMAIN call.colormap2)
        => ret = color_parse(call.colormap2[casefold(strip(call.expr.str))],
                             EmptyMap, PyNone)

(***************************************************************************)
(* The registry's lookups and listing.                                     *)
(***************************************************************************)
\* C19: NamedColor.by_name(name) returns the member whose name equals name
\* ignoring letter case and surrounding whitespace, and returns None, raising
\* nothing, when no member has that name or when name is None.
C19_ByName ==
    call.op = "by_name" =>
        IF call.name.type = "NoneType"
        THEN ret = RetNone
        ELSE IF Named(call.name.str) = {}
        THEN ret = RetNone
        ELSE ret.kind = "member" /\ ret.val \in Named(call.name.str)

\* C19 happens: "aZuRe" finds AZURE.
C19_Witness ==
    /\ call.op = "by_name"
    /\ call.name = PyStr(<<"a", "Z", "u", "R", "e">>)
    /\ ret = RetMember(Member("AZURE"))

\* The members of a list, as a set.
Range(l) == {l[i] : i \in 1..Len(l)}

\* C20: all_colors(only_standard=True) returns exactly the members whose
\* is_standard() is true, each once, and all_colors(only_standard=False)
\* returns every member, for every accepted sort_by, the default included.
C20_AllColors ==
    call.op = "all_colors" =>
        LET wanted == IF call.only_standard THEN StandardMembers ELSE Members
        IN  /\ ret.kind = "list"
            /\ Range(ret.val) = wanted
            /\ Len(ret.val) = Cardinality(wanted)

IsColour(c) == Len(c) \in {3, 4} /\ (IntRep(c) \/ FloatRep(c))

\* The truncated mean of the R, G and B of an int tuple.
Mean3(c) == (c[1][1] + c[2][1] + c[3][1]) \div 3

\* The R, G and B of a float tuple as ints.
IntForm(c) == <<ByteOf(c[1]), ByteOf(c[2]), ByteOf(c[3])>>

White255 == <<IntNum(255), IntNum(255), IntNum(255)>>
White1 == <<IntNum(1), IntNum(1), IntNum(1)>>
Black0 == <<IntNum(0), IntNum(0), IntNum(0)>>

\* The outline of an int colour and of a float colour.
OutlineOfInts(c) == IF Mean3(c) < 128 THEN White255 ELSE Black0
OutlineOfFloats(c) == IF Mean3(IntForm(c)) < 128 THEN White1 ELSE Black0

Lighter(ch) == ch + ((255 - ch) \div 2)
Darker(ch) == ch \div 2

\* The subdued form of an int colour, as an int triple.
SubduedOfInts(c) ==
    IF Mean3(c) < 128
    THEN <<IntNum(Lighter(c[1][1])), IntNum(Lighter(c[2][1])), IntNum(Lighter(c[3][1]))>>
    ELSE <<IntNum(Darker(c[1][1])), IntNum(Darker(c[2][1])), IntNum(Darker(c[3][1]))>>

\* The subdued form of a float colour: that of its int form, as floats.
SubduedOfFloats(c) ==
    LET s == SubduedOfInts(IntForm(c))
    IN  <<Over255(s[1]), Over255(s[2]), Over255(s[3])>>

\* C14 as stated: for every int RGB(A) tuple c with channels in 0..255,
\* color_subdued(c) is the int 3-tuple of ch + (255 - ch) div 2 per channel
\* when brightness(c) < 128 and of ch div 2 when brightness(c) >= 128; for a
\* float input the rule is applied to its int form and the result is floats.
C14_Subdued ==
    (call.op = "color_subdued" /\ IsColour(call.arg)) =>
        IF IntRep(call.arg)
        THEN ret = RetTuple(SubduedOfInts(call.arg))
        ELSE ret = RetTuple(SubduedOfFloats(call.arg))

\* C14 as the code has it: the rule holds as stated for an int colour with a
\* channel above 1; a colour whose channels all lie in [0, 1], the int tuples
\* of 0s and 1s included, is read as a float colour: the rule is applied to
\* its int form and the result is returned as floats.
C14_SubduedByReading ==
    (call.op = "color_subdued" /\ IsColour(call.arg)) =>
        IF FloatRep(call.arg)
        THEN ret = RetTuple(SubduedOfFloats(call.arg))
        ELSE ret = RetTuple(SubduedOfInts(call.arg))

\* C14 happens: the dark (0,0,129) becomes the lighter (127,127,192).
C14_Witness ==
    /\ call.op = "color_subdued"
    /\ call.arg = <<IntNum(0), IntNum(0), IntNum(129)>>
    /\ ret = RetTuple(<<IntNum(127), IntNum(127), IntNum(192)>>)

\* C15: for every int RGB(A) tuple c with channels in 0..255,
\* color_monochrome(c) returns the gray 3-tuple (b, b, b), b the truncated
\* mean of R, G and B.
C15_Monochrome ==
    (call.op = "color_monochrome" /\ Len(call.arg) \in {3, 4} /\ IntRep(call.arg)) =>
        ret = RetTuple(<<IntNum(Mean3(call.arg)), IntNum(Mean3(call.arg)),
                         IntNum(Mean3(call.arg))>>)

\* The colour at the hue of c turned by half the wheel and by shift more, with
\* the S and V of c, in the representation of c.
Turned(c, shift) ==
    LET f == <<FloatForm(c, c[1]), FloatForm(c, c[2]), FloatForm(c, c[3])>>
        hsv_ == rgb_to_hsv(f).val
        hue == RatMod1(RatAdd(RatAdd(hsv_[1], <<1, 2>>), shift))
        rgb == hsv_to_rgb(<<hue, hsv_[2], hsv_[3]>>).val
    IN  IF FloatRep(c) THEN rgb ELSE <<ByteOf(rgb[1]), ByteOf(rgb[2]), ByteOf(rgb[3])>>

\* C16: for every valid 3- or 4-channel colour c, color_complementary(c,
\* degrees) returns a list of exactly one colour, the hue turned by half the
\* wheel with the same S and V, when degrees == 0.0, and a list of exactly two
\* colours, at the complement minus and plus degrees/720, when degrees > 0.0,
\* each a 3-tuple in the representation of c.
C16_Complementary ==
    (call.op = "color_complementary" /\ IsColour(call.arg)) =>
        LET shift == Rat(call.degrees[1], call.degrees[2] * 720)
        IN  IF call.degrees = IntNum(0)
            THEN ret = RetList(<<Turned(call.arg, IntNum(0))>>)
            ELSE ret = RetList(<<Turned(call.arg, RatSub(IntNum(0), shift)),
                                 Turned(call.arg, shift)>>)


(***************************************************************************)
(* The order of the registry.                                              *)
(***************************************************************************)
\* In definition order every member whose is_standard() is true comes
\* before every member whose is_standard() is false.
StandardPrecedeExtended ==
    \A e \in Members : \A f \in Members :
        (is_standard(e) /\ ~is_standard(f)) => e < f

\* BLACK is standard and no standard member is defined after it.
BlackIsLastStandard ==
    /\ is_standard(BLACK)
    /\ \A e \in Members : is_standard(e) => e <= BLACK

\* C28: in NamedColor's definition order every member with is_standard()
\* true precedes every member with is_standard() false, and BLACK is the
\* last standard member; so a search that stops after BLACK has looked at
\* the standard members and at nothing else.
C28_StandardFirst ==
    /\ StandardPrecedeExtended
    /\ BlackIsLastStandard
    /\ (AsksColour(3) /\ call.only_standard /\ ret.kind = "member")
           => (is_standard(ret.val) /\ ret.val <= BLACK)

\* C28 happens: among the standard colours only, the triple of a member
\* defined after BLACK was asked for, and a member defined up to BLACK came
\* back.
C28_Witness ==
    /\ AsksColour(3)
    /\ call.only_standard
    /\ \E f \in Members : f > BLACK /\ ~is_standard(f) /\ value0(f) = Asked
    /\ ret.kind = "member"
    /\ ret.val <= BLACK


(***************************************************************************)
(* GWEnum.                                                                 *)
(***************************************************************************)
\* The text t occurs in the text s.
Contains(s, t) ==
    \E i \in 0..(Len(s) - Len(t)) : SubSeq(s, i + 1, i + Len(t)) = t

\* The text of a value asked for, as the caller wrote it.
Attempted(v) == IF v.type = "str" THEN v.str ELSE str_of(v)

\* C21: for every GWEnum subclass and every member e of it,
\* by_value(e.display_name()) returns e.
C21_DisplayNameLeadsBack ==
    (call.op \in {"GWEnum.by_value", "NamedColor.by_value"} /\ call.origin # 0)
        => ret = RetMember(call.origin)

\* C22: by_value returns the first member defined when the value is None or
\* empty; a non-empty value that matches no member's primary value or name
\* raises an error of the ValueError kind whose message contains the value
\* asked for, and None is never returned for it.
C22_DefaultOrNoSuchValue ==
    (call.op = "GWEnum.by_value" /\ call.origin = 0)
        => LET cls == call.cls
               v == call.value
               known == \E e \in 1..Len(cls.members) :
                           by_value_matches(cls, e,
                               IF v.type = "str" THEN GWStr(casefold(strip(v.str))) ELSE v)
           IN  /\ (v = GWNone \/ v = GWStr(<<>>) \/ v = GWTuple(<<>>)) => ret = RetMember(1)
               /\ (GWTruthy(v) /\ ~known)
                     => /\ ret.kind \in ValueErrorKinds
                        /\ Contains(ret.val, Attempted(v))


(***************************************************************************)
(* snake_case.                                                             *)
(***************************************************************************)
\* s is in lower snake_case: empty, or words of lower-case letters and
\* digits with one underscore between two words.
LowerSnakeChar(c) == (\E i \in 1..Len(Lower) : Lower[i] = c) \/ (\E j \in 1..10 : DecDigits[j] = c)
IsLowerSnake(s) ==
    /\ \A i \in 1..Len(s) : s[i] = "_" \/ LowerSnakeChar(s[i])
    /\ s # <<>> => (s[1] # "_" /\ s[Len(s)] # "_")
    /\ \A i \in 1..(Len(s) - 1) : ~(s[i] = "_" /\ s[i + 1] = "_")

\* C23: snake_case(snake_case(s)) = snake_case(s) for every identifier s of
\* ASCII letters, digits and underscores, and an identifier already in lower
\* snake_case is returned unchanged.
C23_SnakeCaseIdempotent ==
    call.op = "snake_case"
        => /\ call.identifier # call.origin => ret = RetStr(call.identifier)
           /\ IsLowerSnake(call.identifier) => ret = RetStr(call.identifier)


(***************************************************************************)
(* Keystroke expressions.                                                  *)
(***************************************************************************)
\* The parts of the expression asked for: the items of a list, the pieces
\* between plus signs of a str (none for a blank str); each in lower case
\* and without surrounding blanks.
PartsAsked ==
    LET x == call.keystroke_expression
        raw == IF x.type = "list" THEN x.list
               ELSE IF strip(x.str) = <<>> THEN <<>>
               ELSE split(strip(x.str), "+")
    IN  [i \in 1..Len(raw) |-> strip(casefold(raw[i]))]

\* A known key identifier or modifier
KnownPart(p) ==
    \/ \E i \in 1..Len(KEYCODES) : KEYCODES[i].key = p
    \/ \E i \in 1..Len(MODIFIERS) : MODIFIERS[i].key = p

\* C24: parse_keystroke_expression raises ValueError whenever a part of the
\* expression is not a known key identifier or modifier: no other exception
\* escapes and no list is returned.
C24_InvalidPartRaisesValueError ==
    (call.op = "parse_keystroke_expression"
        /\ \E i \in 1..Len(PartsAsked) : ~KnownPart(PartsAsked[i]))
        => ret.kind = "ValueError"

(***************************************************************************)
(* The yes/no dialog                                                       *)
(***************************************************************************)
Dismissal == [do |-> "dismiss", fn |-> None, args |-> <<>>]

\* C25: after ask_user_yes_no(msg, on_yes, on_no), the yes button dismisses
\* the popup and then calls on_yes, once; the no button dismisses the popup
\* and then calls on_no() if it was given and on_yes(None) otherwise, once;
\* nothing else is called.
C25_OneCallbackPerAnswer ==
    /\ call.op = "YesNoDialog.on_ok" =>
         /\ ~dialog.popup_open
         /\ Len(dialog.trace) = 2
         /\ dialog.trace[1] = Dismissal
         /\ dialog.trace[2].do = "call"
         /\ dialog.trace[2].fn = dialog._user_callback_ok
    /\ call.op = "YesNoDialog.on_cancel" =>
         /\ ~dialog.popup_open
         /\ Len(dialog.trace) = 2
         /\ dialog.trace[1] = Dismissal
         /\ dialog.trace[2] =
              IF dialog._user_callback_cancel # None
              THEN [do |-> "call", fn |-> dialog._user_callback_cancel, args |-> <<>>]
              ELSE [do |-> "call", fn |-> dialog._user_callback_ok, args |-> <<None>>]

(***************************************************************************)
(* The inactivity timeout                                                  *)
(***************************************************************************)
Live == {i \in 1..Len(kivy.events) : kivy.events[i].state = "pending"}
Fired == {i \in 1..Len(kivy.events) : kivy.events[i].state = "fired"}

\* Every activity (the set-up, a touch, a key, a reset_timeout) schedules an
\* event, so there was activity between scheduling event i and firing it iff a
\* later event was scheduled before the frame that fired i.
ActivityBeforeFiring(i) ==
    \E j \in 1..Len(kivy.events) : j > i /\ kivy.events[j].at < kivy.events[i].fired_at

\* C26: after add_inactivity_timeout(app, handler, m), whatever touches,
\* keys, reset_timeout and cancel_timeout calls and Clock frames follow: at
\* most one scheduled timeout is live; a timeout that fired did so m*60
\* seconds or more after it was scheduled with no activity in between, i.e.
\* after the most recent activity; and cancel_timeout leaves nothing live, so
\* nothing fires until a later reset schedules again.
C26_OneLiveTimeout ==
    /\ Cardinality(Live) <= 1
    /\ \A i \in Live : app.reset_event = i
    /\ \A i \in Fired :
         /\ kivy.events[i].fired_at - kivy.events[i].at >= app.inactivity_minutes * 60
         /\ ~ActivityBeforeFiring(i)
    /\ call.op = "cancel_timeout" => Live = {}

\* A timeout has fired after an earlier one was cancelled by a reset, and
\* another one is live again.
C26_Witness ==
    /\ Fired # {}
    /\ Live # {}
    /\ \E i \in 1..Len(kivy.events) : kivy.events[i].state = "cancelled"

(***************************************************************************)
(* The multi-keystroke listener                                            *)
(***************************************************************************)
\* The event delivered before the latest one was a key-down.
AfterKeyDown ==
    /\ Len(listener.delivered) > 1
    /\ listener.delivered[Len(listener.delivered) - 1] = "down"

\* C27: a key-up that follows a key-down invokes do_key_press exactly once;
\* every other key-up (after another key-up, or with no key-down before it)
\* invokes nothing; and no key-up raises.
C27_OnePressPerCombination ==
    call.op = "_on_keyboard_up" =>
        /\ ret = RetBool(TRUE)
        /\ Len(listener.invoked) = IF AfterKeyDown THEN 1 ELSE 0

(***************************************************************************)
(* The camera inventory                                                    *)
(***************************************************************************)
\* The ports checked whose camera opened.
Opened == {p \in DOMAIN inventory._inventory : inventory._inventory[p] # None}

\* C29: active_camera_port is None or a port whose inventory entry is a
\* camera that opened; a check_camera whose camera opens when none was
\* active makes that port the active one; assigning a port that is not one
\* of an opened camera raises IndexError; and reading active_camera_port
\* (the constructor reads it for its debug line) never raises.
C29_ActivePortIsACamera ==
    /\ inventory._active_camera_port # PyNone => inventory._active_camera_port.int \in Opened
    /\ (call.op = "check_camera" /\ call.opens /\ ~call.was_known /\ call.was_active = PyNone)
         => inventory._active_camera_port = PyInt(call.port)
    /\ (call.op = "active_camera_port=" /\ call.value \notin Opened) => ret.kind = "IndexError"
    /\ call.op \in {"active_camera_port", "CameraInventory"} => ret.kind # "AttributeError"

(***************************************************************************)
(* The image window                                                        *)
(***************************************************************************)
\* zoom_factor is never below 1.0, and zoom(0) sets it to exactly 1.0.
ZoomFactorKept ==
    /\ window'.zoom_factor >= One
    /\ (call'.op = "zoom" /\ call'.factor = 0) => window'.zoom_factor = One

\* C30 as stated: over any zoom and reset_zooming calls zoom_factor is never
\* below 1.0, zoom(0) sets it to exactly 1.0, and a zoom triggers a repaint
\* only when the zoom factor differs from the one the canvas was last
\* painted with.
C30_RepaintOnlyWhenPaintedDiffers ==
    [][/\ ZoomFactorKept
       /\ (call'.op = "zoom" /\ window'.repaints > 0) => window'.zoom_factor # window.canvas]_vars

\* C30, amended: over any zoom and reset_zooming calls zoom_factor is never
\* below 1.0, zoom(0) sets it to exactly 1.0, and a zoom triggers a repaint,
\* exactly one, if and only if the new zoom factor differs from
\* previous_zoom_factor, which is the factor of the last repaint a zoom
\* triggered, or 0 after reset_zooming and before the first zoom; either way
\* previous_zoom_factor is the zoom factor afterwards.
C30_RepaintWhenPreviousDiffers ==
    [][/\ ZoomFactorKept
       /\ call'.op = "zoom" =>
            /\ window'.repaints = IF window'.zoom_factor # window.previous_zoom_factor THEN 1 ELSE 0
            /\ window'.previous_zoom_factor = window'.zoom_factor
            /\ window'.repaints = 1 => window'.canvas = window'.zoom_factor
       /\ call'.op = "reset_zooming" =>
            /\ window'.previous_zoom_factor = 0
            /\ window'.repaints = 0]_vars

\* A zoom out that is held at 1.0 and repaints.
C30_Witness ==
    /\ call.op = "zoom"
    /\ call.factor < 0
    /\ window.zoom_factor = One
    /\ window.repaints = 1

====
